------------------------- MODULE StreamGateway_proofs -------------------------
(* What holds of every number of subscriptions of a client to a device. *)
EXTENDS StreamGateway, FiniteSetTheorems, TLAPS

\* A stream cannot be aborted before it has been subscribed to.
AbortedHaveBegun == \A s \in aborted : phase[s] # "idle"

\* The inductive invariant: Subscribe enters a stream that is not aborted because
\* it has not begun.
IInv == TypeOK /\ AbortedHaveBegun /\ EntryIsLive

\* The inductive invariant holds in every reachable state.
THEOREM Invariance == Spec => []IInv
<1>1. Init => IInv
  BY NoneAssumption DEF Init, IInv, TypeOK, Phases, AbortedHaveBegun, EntryIsLive
<1>2. IInv /\ [Next]_vars => IInv'
  <2> SUFFICES ASSUME IInv, [Next]_vars PROVE IInv'
    OBVIOUS
  <2> USE NoneAssumption DEF IInv, TypeOK, Phases, AbortedHaveBegun, EntryIsLive, Live
  <2>1. ASSUME NEW s \in Sub, Subscribe(s) PROVE IInv'
    BY <2>1 DEF Subscribe
  <2>2. ASSUME NEW s \in Sub, Connected(s) PROVE IInv'
    BY <2>2 DEF Connected
  <2>3. ASSUME NEW s \in Sub, ConnectFails(s) PROVE IInv'
    BY <2>3 DEF ConnectFails
  <2>4. ASSUME NEW s \in Sub, SampleAfterAbort(s) PROVE IInv'
    BY <2>4 DEF SampleAfterAbort
  <2>5. ASSUME NEW s \in Sub, StreamEnds(s) PROVE IInv'
    BY <2>5 DEF StreamEnds
  <2>6. ASSUME NEW s \in Sub, Closed(s) PROVE IInv'
    BY <2>6 DEF Closed
  <2>7. CASE Unsubscribe
    BY <2>7 DEF Unsubscribe, Abort
  <2>8. CASE Disconnect
    BY <2>8 DEF Disconnect, Abort
  <2>9. CASE UNCHANGED vars
    BY <2>9 DEF vars
  <2> QED
    BY <2>1, <2>2, <2>3, <2>4, <2>5, <2>6, <2>7, <2>8, <2>9 DEF Next
<1> QED
  BY <1>1, <1>2, PTL DEF Spec

\* The state has its types: abortControllers holds streams only.
THEOREM TypeTheorem == Spec => []TypeOK
BY Invariance, PTL DEF IInv

\* A controller in the map is always that of a stream that runs and can still be
\* aborted, however many subscriptions, aborts and ends of streams interleave.
THEOREM EntryTheorem == Spec => []EntryIsLive
BY Invariance, PTL DEF IInv

\* A finite set grows by one at most when an element is added.
LEMMA GrowsByOne ==
  ASSUME NEW S, NEW x, IsFiniteSet(S)
  PROVE  /\ IsFiniteSet(S \cup {x})
         /\ Cardinality(S \cup {x}) \in Nat
         /\ Cardinality(S \cup {x}) <= Cardinality(S) + 1
<1>1. IsFiniteSet(S \cup {x})
  BY FS_AddElement
<1>2. Cardinality(S \cup {x}) = IF x \in S THEN Cardinality(S) ELSE Cardinality(S) + 1
  BY FS_AddElement
<1>3. Cardinality(S) \in Nat /\ Cardinality(S \cup {x}) \in Nat
  BY <1>1, FS_CardinalityType
<1> QED
  BY <1>1, <1>2, <1>3

\* Orphans that do not grow while the stopped streams do not shrink keep to their
\* bound.
LEMMA Monotone ==
  ASSUME TypeOK, TypeOK', OneOrphanPerAbort,
         Orphans' \subseteq Orphans, Stopped \subseteq Stopped'
  PROVE  OneOrphanPerAbort'
<1>1. /\ IsFiniteSet(Orphans) /\ IsFiniteSet(Stopped) /\ IsFiniteSet(Stopped')
  BY SubAssumption, FS_Subset DEF Orphans, Stopped, TypeOK
<1>2. /\ IsFiniteSet(Orphans') /\ Cardinality(Orphans') <= Cardinality(Orphans)
  BY <1>1, FS_Subset
<1>3. Cardinality(Stopped) <= Cardinality(Stopped')
  BY <1>1, FS_Subset
<1>4. /\ Cardinality(Orphans) \in Nat /\ Cardinality(Orphans') \in Nat
      /\ Cardinality(Stopped) \in Nat /\ Cardinality(Stopped') \in Nat
  BY <1>1, <1>2, FS_CardinalityType
<1> QED
  BY <1>2, <1>3, <1>4 DEF OneOrphanPerAbort

\* The end of a stream can leave one more orphan, the stream whose controller it
\* deletes; but then it was an orphan itself, or it had been aborted.
LEMMA ClosedKeepsBound ==
  ASSUME IInv, TypeOK', OneOrphanPerAbort, NEW s \in Sub, Closed(s)
  PROVE  OneOrphanPerAbort'
<1> USE DEF IInv, TypeOK, Phases, Closed, Orphans, Stopped, Live
<1>1. IsFiniteSet(Orphans) /\ IsFiniteSet(Stopped)
  BY SubAssumption, FS_Subset
<1>2. Cardinality(Orphans) \in Nat /\ Cardinality(Stopped) \in Nat
  BY <1>1, FS_CardinalityType
<1>3. CASE s \in aborted
  <2>1. Orphans' \subseteq Orphans \cup {current}
    BY <1>3
  <2>2. Stopped' = Stopped \cup {s} /\ s \notin Stopped
    BY <1>3
  <2>3. /\ IsFiniteSet(Stopped')
        /\ Cardinality(Stopped') = Cardinality(Stopped) + 1
    BY <2>2, <1>1, FS_AddElement
  <2>4. /\ IsFiniteSet(Orphans \cup {current})
        /\ Cardinality(Orphans \cup {current}) \in Nat
        /\ Cardinality(Orphans \cup {current}) <= Cardinality(Orphans) + 1
    BY <1>1, GrowsByOne
  <2>5. /\ IsFiniteSet(Orphans')
        /\ Cardinality(Orphans') <= Cardinality(Orphans \cup {current})
    BY <2>1, <2>4, FS_Subset
  <2> HIDE DEF Orphans, Stopped
  <2>6. Cardinality(Orphans') \in Nat
    BY <2>5, FS_CardinalityType
  <2> QED
    BY <1>2, <2>3, <2>4, <2>5, <2>6 DEF OneOrphanPerAbort
<1>4. CASE s \notin aborted /\ current = s
  <2>1. Orphans' \subseteq Orphans /\ Stopped \subseteq Stopped'
    BY <1>4, NoneAssumption
  <2> QED
    BY <2>1, Monotone
<1>5. CASE s \notin aborted /\ current # s
  <2>1. s \in Orphans /\ Orphans' \subseteq (Orphans \ {s}) \cup {current}
    BY <1>5
  <2>2. Stopped' = Stopped
    BY <1>5
  <2> DEFINE Rest == Orphans \ {s}
  <2> HIDE DEF Orphans, Stopped
  <2>3. IsFiniteSet(Rest) /\ Cardinality(Rest) = Cardinality(Orphans) - 1
    BY <2>1, <1>1, FS_RemoveElement
  <2>4. /\ IsFiniteSet(Rest \cup {current})
        /\ Cardinality(Rest \cup {current}) \in Nat
        /\ Cardinality(Rest \cup {current}) <= Cardinality(Rest) + 1
    BY <2>3, GrowsByOne
  <2>5. /\ IsFiniteSet(Orphans')
        /\ Cardinality(Orphans') <= Cardinality(Rest \cup {current})
    BY <2>1, <2>4, FS_Subset
  <2>6. Cardinality(Orphans') \in Nat
    BY <2>5, FS_CardinalityType
  <2> HIDE DEF Rest
  <2> QED
    BY <1>2, <2>2, <2>3, <2>4, <2>5, <2>6 DEF OneOrphanPerAbort
<1> QED
  BY <1>3, <1>4, <1>5

\* The streams of a key that nothing can stop are at most as many as the aborted
\* streams that have come to their end, for every number of subscriptions.
THEOREM OneOrphanTheorem == Spec => []OneOrphanPerAbort
<1>1. Init => OneOrphanPerAbort
  <2> SUFFICES ASSUME Init PROVE OneOrphanPerAbort
    OBVIOUS
  <2>1. Orphans = {} /\ Stopped = {}
    BY DEF Init, Orphans, Stopped, Live
  <2> QED
    BY <2>1, FS_EmptySet DEF OneOrphanPerAbort
<1>2. IInv /\ IInv' /\ OneOrphanPerAbort /\ [Next]_vars => OneOrphanPerAbort'
  <2> SUFFICES ASSUME IInv, TypeOK', OneOrphanPerAbort, [Next]_vars
               PROVE  OneOrphanPerAbort'
    BY DEF IInv
  <2>1. ASSUME NEW s \in Sub, Closed(s) PROVE OneOrphanPerAbort'
    BY <2>1, ClosedKeepsBound
  <2>2. ASSUME Orphans' \subseteq Orphans, Stopped \subseteq Stopped'
        PROVE  OneOrphanPerAbort'
    BY <2>2, Monotone DEF IInv
  <2> USE NoneAssumption
        DEF IInv, TypeOK, Phases, EntryIsLive, Live, Orphans, Stopped
  <2>3. ASSUME NEW s \in Sub,
               Subscribe(s) \/ Connected(s) \/ ConnectFails(s)
                 \/ SampleAfterAbort(s) \/ StreamEnds(s)
        PROVE  Orphans' \subseteq Orphans /\ Stopped \subseteq Stopped'
    BY <2>3 DEF Subscribe, Connected, ConnectFails, SampleAfterAbort, StreamEnds
  <2>4. CASE Unsubscribe \/ Disconnect
    <3>1. Orphans' \subseteq Orphans /\ Stopped \subseteq Stopped'
      BY <2>4 DEF Unsubscribe, Disconnect, Abort
    <3> QED
      BY <3>1, <2>2
  <2>5. CASE UNCHANGED vars
    <3>1. Orphans' \subseteq Orphans /\ Stopped \subseteq Stopped'
      BY <2>5 DEF vars
    <3> QED
      BY <3>1, <2>2
  <2> HIDE DEF IInv, Orphans, Stopped
  <2> QED
    BY <2>1, <2>2, <2>3, <2>4, <2>5 DEF Next
<1> QED
  BY <1>1, <1>2, Invariance, PTL DEF Spec
==============================================================================
