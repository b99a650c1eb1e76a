---------------------------- MODULE Gallery_proofs ----------------------------
(***************************************************************************)
(* A theorem about Gallery, for any times, numbers of jobs and broken      *)
(* pictures.                                                               *)
(***************************************************************************)
EXTENDS Gallery, FiniteSetTheorems, SequenceTheorems, TLAPS

(* A list has its length.                                                  *)
IsList(list) == Len(list) \in Nat /\ DOMAIN list = 1 .. Len(list)

ListInv ==
  /\ jobs \in Seq({"queued", "drawn", "blank"})
  /\ IsList(items) /\ index \in Nat
  /\ SelectedListed

LEMMA PicturesListed ==
  ASSUME jobs \in Seq({"queued", "drawn", "blank"})
  PROVE  IsList(Pictures)
<1>1. Len(jobs) \in Nat /\ DOMAIN jobs = 1 .. Len(jobs)
  BY LenProperties
<1>2. IsFiniteSet(1 .. Len(jobs)) /\ Drawn \subseteq 1 .. Len(jobs)
  BY <1>1, FS_Interval DEF Drawn
<1>3. PICK n \in Nat : n = Cardinality(Drawn)
  BY <1>2, FS_Subset, FS_CardinalityType
<1> DEFINE S == {Pictures[k] : k \in 1 .. n}
<1>4. DOMAIN Pictures = 1 .. n /\ Pictures \in [1 .. n -> S]
  BY <1>3 DEF Pictures
<1> HIDE DEF S
<1>5. Pictures \in Seq(S)
  BY <1>4, SeqDef
<1> QED
  BY <1>5, LenProperties DEF IsList

(* An index counted round the list is on it.                               *)
LEMMA RoundListed ==
  ASSUME NEW list, IsList(list), Len(list) # 0, NEW i \in Nat
  PROVE  i % Len(list) \in Nat /\ (i % Len(list)) + 1 \in DOMAIN list
<1>1. Len(list) \in Nat /\ Len(list) > 0 /\ DOMAIN list = 1 .. Len(list)
  BY DEF IsList
<1>2. i % Len(list) \in 0 .. Len(list) - 1
  BY <1>1
<1> QED
  BY <1>1, <1>2

LEMMA ShowsListed ==
  ASSUME ListInv, NEW i \in Nat, NEW again, i + 1 \in DOMAIN items, Shows(i, again),
         UNCHANGED <<jobs, items>>
  PROVE  ListInv'
BY DEF Shows, ListInv, IsList, SelectedListed

(* What GalleryRotation::select chooses is on the list that was fetched    *)
(* last, however often and how much shorter it has become since the index  *)
(* was set, whichever requests failed.                                     *)
THEOREM SelectionListed == Spec => []SelectedListed
<1>1. Init => ListInv
  <2>1. Len(<<>>) = 0 /\ DOMAIN <<>> = 1 .. 0 /\ <<>> \in Seq({"queued", "drawn", "blank"})
    OBVIOUS
  <2> QED
    BY <2>1 DEF Init, ListInv, IsList, SelectedListed
<1>2. ListInv /\ [Next]_vars => ListInv'
  <2> SUFFICES ASSUME ListInv, [Next]_vars PROVE ListInv'
    OBVIOUS
  <2>1. IsList(items) /\ index \in Nat /\ (items # <<>> => Len(items) # 0)
    <3>1. IsList(items) /\ index \in Nat
      BY DEF ListInv
    <3>2. ASSUME Len(items) = 0 PROVE items = <<>>
      BY <3>1, <3>2 DEF IsList
    <3> QED
      BY <3>1, <3>2
  <2>2. CASE UNCHANGED vars
    BY <2>2 DEF vars, rotation, ListInv, IsList, SelectedListed
  <2>3. CASE Submit
    <3>1. jobs' \in Seq({"queued", "drawn", "blank"})
      BY <2>3 DEF Submit, ListInv
    <3> QED
      BY <2>3, <3>1 DEF Submit, rotation, ListInv, IsList, SelectedListed
  <2>4. CASE Draw
    <3>1. jobs' \in Seq({"queued", "drawn", "blank"})
      <4>1. PICK i \in DOMAIN jobs, outcome \in {"drawn", "blank"} :
              jobs' = [jobs EXCEPT ![i] = outcome]
        BY <2>4 DEF Draw
      <4>2. jobs \in Seq({"queued", "drawn", "blank"})
        BY DEF ListInv
      <4> QED
        BY <4>1, <4>2, ExceptSeq
    <3> QED
      BY <2>4, <3>1 DEF Draw, rotation, ListInv, IsList, SelectedListed
  <2>5. CASE Top \/ ShowNothing \/ Delay
    BY <2>5 DEF Top, ShowNothing, Delay, rotation, ListInv, IsList, SelectedListed
  <2>6. CASE Fetch
    <3>1. IsList(items')
      BY <2>1, <2>6, PicturesListed DEF Fetch, ListInv
    <3> QED
      BY <2>6, <3>1 DEF Fetch, rotation, ListInv, SelectedListed, IsList
  <2>7. CASE ShowArrival
    <3>1. 0 \in Nat /\ 0 + 1 \in DOMAIN items
      BY <2>1, <2>7 DEF ShowArrival, Arrived, IsList
    <3>2. Shows(0, FALSE) /\ UNCHANGED <<jobs, items>>
      BY <2>7 DEF ShowArrival
    <3> QED
      BY <3>1, <3>2, ShowsListed
  <2>8. CASE ShowRetry
    <3>1. PICK i \in Nat : i = index % Len(items) /\ i + 1 \in DOMAIN items
      BY <2>1, <2>8, RoundListed DEF ShowRetry, RetryDue
    <3>2. Shows(i, FALSE) /\ UNCHANGED <<jobs, items>>
      BY <2>8, <3>1 DEF ShowRetry
    <3> QED
      BY <3>1, <3>2, ShowsListed
  <2>9. CASE ShowNext
    <3>1. Len(items) # 0 /\ index + 1 \in Nat
      BY <2>1, <2>9 DEF ShowNext, NextDue
    <3>2. PICK i \in Nat : i = (index + 1) % Len(items) /\ i + 1 \in DOMAIN items
      BY <2>1, <3>1, RoundListed
    <3>3. Shows(i, retry) /\ UNCHANGED <<jobs, items>>
      BY <2>9, <3>2 DEF ShowNext
    <3> QED
      BY <3>2, <3>3, ShowsListed
  <2>10. CASE (\E i \in 1 .. MaxJobs : Succeeds(i)) \/ Fails
    BY <2>10 DEF Succeeds, Fails, rotation, ListInv, IsList, SelectedListed
  <2> QED
    BY <2>2, <2>3, <2>4, <2>5, <2>6, <2>7, <2>8, <2>9, <2>10 DEF Next, Loop
<1>3. ListInv => SelectedListed
  BY DEF ListInv
<1> QED
  BY <1>1, <1>2, <1>3, PTL DEF Spec
=============================================================================
