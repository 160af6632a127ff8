------------------------------ MODULE NextPart ------------------------------
(***************************************************************************)
(* The parts of a file that have still to be sent (NextPart): a std::list  *)
(* of closed intervals.  Shown to implement the set of PartSet.            *)
(***************************************************************************)
EXTENDS Naturals, Sequences, SequencesExt

CONSTANT MaxPart  \* the highest number of a part

ASSUME NextPartAssumption == MaxPart \in Nat

VARIABLE content

Part == 0..MaxPart
Interval == [first : Part, second : Part]
Single(p) == [first |-> p, second |-> p]
Within(i, p) == i.first <= p /\ p <= i.second

\* A list whose end node has been written or erased is a list no more.
Broken == <<[first |-> 1, second |-> 0]>>

\* The element after the k-th.  After the last one the code looks at the end
\* node of the list, where libstdc++ keeps the number of elements: as a pair
\* of unsigned int it is that number and 0.
After(c, k) == IF k < Len(c) THEN c[k + 1] ELSE [first |-> Len(c), second |-> 0]

\* The cases in which the k-th round of the loop in addPart returns.
Contained(c, k, p) == Within(c[k], p) \/ (p > c[k].second /\ Within(After(c, k), p))
IsBefore(c, k, p) == p < c[k].first
IsBetween(c, k, p) == c[k].second < p /\ p < After(c, k).first
Returns(c, k, p) == Contained(c, k, p) \/ IsBefore(c, k, p) \/ IsBetween(c, k, p)

\* Mutant: the upper of two intervals that grew together is not erased.
FillGapKeepsNext(c, k, p) ==
  LET next == After(c, k)
  IN CASE c[k].second + 1 = p /\ next.first = p + 1 ->
            [c EXCEPT ![k].second = next.second]
       [] c[k].second + 1 = p /\ next.first # p + 1 -> [c EXCEPT ![k].second = p]
       [] OTHER -> InsertAt(c, k + 1, Single(p))

\* p lies in the gap after the k-th interval, which it may close.
FillGap(c, k, p) ==
  LET next == After(c, k)
      below == c[k].second + 1 = p
      above == next.first = p + 1
  IN CASE ~below /\ ~above -> InsertAt(c, k + 1, Single(p))
       [] above /\ k = Len(c) -> Broken
       [] below /\ above /\ k < Len(c) ->
            RemoveAt(ReplaceAt(c, k, [first |-> c[k].first, second |-> next.second]), k + 1)
       [] below /\ ~above -> [c EXCEPT ![k].second = p]
       [] ~below /\ above /\ k < Len(c) -> [c EXCEPT ![k + 1].first = p]

\* p lies below the k-th interval.
PutBefore(c, k, p) ==
  IF p + 1 = c[k].first THEN [c EXCEPT ![k].first = p] ELSE InsertAt(c, k, Single(p))

\* No round returned: p lies above all intervals.
PutAtEnd(c, p) ==
  IF c # <<>> /\ c[1].second + 1 = p THEN [c EXCEPT ![1].second = p] ELSE Append(c, Single(p))

AddPartTo(c, p) ==
  LET rounds == {k \in DOMAIN c : Returns(c, k, p)}
      k == CHOOSE i \in rounds : \A j \in rounds : i <= j
  IN IF rounds = {} THEN PutAtEnd(c, p)
     ELSE IF Contained(c, k, p) THEN c
     ELSE IF IsBefore(c, k, p) THEN PutBefore(c, k, p)
     ELSE FillGap(c, k, p)

\* Mutant: the whole interval goes with its first part.
WithoutInterval(c, p) == IF c = <<>> \/ c[1].first # p THEN c ELSE Tail(c)

\* Only the part getNextPart returns can be acknowledged; any other is refused.
WithoutPart(c, p) ==
  IF c = <<>> \/ c[1].first # p THEN c
  ELSE IF c[1].second = p THEN Tail(c) ELSE [c EXCEPT ![1].first = p + 1]

-----------------------------------------------------------------------------
(* The callers: compareFiles, transFile and addToDo, sendFilePartMessage *)

Init == content = <<>>
AddPart(p) == content' = AddPartTo(content, p)
AddHoleFile(length) == content' = <<[first |-> 0, second |-> length]>>
AcknowledgePart(p) == content' = WithoutPart(content, p)

Next == \E p \in Part : AddPart(p) \/ AddHoleFile(p) \/ AcknowledgePart(p)
Spec == Init /\ [][Next]_content

-----------------------------------------------------------------------------
(***************************************************************************)
(* The intervals stay in order and apart through every sequence of         *)
(* additions and acknowledgements, and the end node of the list, which     *)
(* addPart reads as if it were an interval, is never taken for one.        *)
(***************************************************************************)
Ordered ==
  /\ content \in Seq(Interval)
  /\ \A k \in DOMAIN content : content[k].first <= content[k].second
  /\ \A k \in 1..(Len(content) - 1) : content[k].second < content[k + 1].first

\* The set of parts a list of intervals stands for.
PartsIn(c) == {p \in Part : \E k \in DOMAIN c : Within(c[k], p)}

Abstract == INSTANCE PartSet WITH parts <- PartsIn(content)

(***************************************************************************)
(* NextPart is a set of part numbers: addPart adds just its part, and      *)
(* acknowledgePart takes out the smallest one, which getNextPart returned, *)
(* or nothing.                                                             *)
(***************************************************************************)
ImplementsPartSet == Abstract!Spec

=============================================================================
