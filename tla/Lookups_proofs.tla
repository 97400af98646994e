--------------------------- MODULE Lookups_proofs ---------------------------
(***************************************************************************)
(* findBestZone finds the best zone for every set of names, however the    *)
(* zones are edited between its queries, as long as no query fails.        *)
(*                                                                         *)
(* The argument: the k-th query asks for the name less its k first labels  *)
(* (LabelsOfTail, Asked), so when the loop is at k every closer candidate  *)
(* has been seen absent once, and cannot have been there throughout.       *)
(*                                                                         *)
(* The second half is about the records of an answer (Records): what       *)
(* commitTransaction takes apart, getRecordsFromRRSetNode puts together.   *)
(***************************************************************************)
EXTENDS Lookups, Records, SequenceTheorems, FiniteSetTheorems, TLAPS

Start(q) == WithoutStar(Split(q))
Candidate(q, k) == Join(Drop(Start(q), k))

-----------------------------------------------------------------------------
(* Facts about names.                                                      *)

\* Dropping labels one at a time with labels.erase is dropping a prefix.
LEMMA LabelsOfTail ==
  ASSUME NEW s \in Seq(Label), NEW k \in 0..Len(s)
  PROVE  /\ Drop(s, k) \in Seq(Label)
         /\ Len(Drop(s, k)) = Len(s) - k
         /\ \A i \in 1..(Len(s) - k) : Drop(s, k)[i] = s[k + i]
         /\ Drop(s, k) = << >> <=> k = Len(s)
         /\ k < Len(s) => Tail(Drop(s, k)) = Drop(s, k + 1)
  <1>1. /\ Drop(s, k) \in Seq(Label)
        /\ Len(Drop(s, k)) = Len(s) - k
        /\ \A i \in 1..(Len(s) - k) : Drop(s, k)[i] = s[k + i]
    <2>1. \A i \in (k + 1)..Len(s) : s[i] \in Label
      BY LenProperties
    <2> QED  BY <2>1, SubSeqProperties, LenProperties, SMT DEF Drop
  <1>2. Drop(s, k) = << >> <=> k = Len(s)
    BY <1>1, EmptySeq, LenProperties
  <1>3. ASSUME k < Len(s)  PROVE Tail(Drop(s, k)) = Drop(s, k + 1)
    <2>1. k + 1 \in 1..Len(s) /\ Len(s) \in (k + 1)..Len(s) /\ (k + 1) + 1 = k + 1 + 1
      BY <1>3, LenProperties
    <2>2. Tail(SubSeq(s, k + 1, Len(s))) = SubSeq(s, (k + 1) + 1, Len(s))
      BY <2>1, HeadTailOfSubSeq, Zenon
    <2> QED  BY <2>2 DEF Drop
  <1> QED  BY <1>1, <1>2, <1>3

LEMMA DropNone ==
  ASSUME NEW s \in Seq(Label)
  PROVE  Drop(s, 0) = s /\ (s # << >> => Drop(s, 1) = Tail(s))
  <1>1. 0 + 1 = 1 /\ 1 + 1 = 2
    OBVIOUS
  <1>2. SubSeq(s, 1, Len(s)) = s
    BY SubSeqFull
  <1>3. s # << >> => Tail(s) = SubSeq(s, 2, Len(s))
    BY TailIsSubSeq
  <1> QED  BY <1>1, <1>2, <1>3, Zenon DEF Drop

\* What a name less its wildcard is: labels of the name, none of them empty.
LEMMA BaseNames ==
  ASSUME NEW q \in Names
  PROVE  /\ q \in Seq(Label) /\ Base(q) \in Seq(Label)
         /\ \A i \in 1..Len(Base(q)) : Base(q)[i] # ""
  <1>1. q \in Seq(Label) /\ \A i \in 1..Len(q) : q[i] # ""
    BY NamesAssumption
  <1>2. CASE q # << >> /\ q[1] = "*"
    <2>1. /\ Tail(q) \in Seq(Label) /\ Len(Tail(q)) = Len(q) - 1
          /\ \A i \in 1..Len(Tail(q)) : Tail(q)[i] = q[i + 1]
      BY <1>1, <1>2, HeadTailProperties, Zenon
    <2>2. Base(q) = Tail(q)
      BY <1>2 DEF Base
    <2>3. ASSUME NEW i \in 1..Len(Tail(q))  PROVE Tail(q)[i] # ""
      <3>1. Len(q) \in Nat
        BY <1>1, LenProperties, Zenon
      <3>2. i + 1 \in 1..Len(q)
        BY <2>1, <3>1
      <3> QED  BY <1>1, <2>1, <3>2, Zenon
    <2> QED  BY <1>1, <2>1, <2>2, <2>3, Zenon
  <1> QED  BY <1>1, <1>2 DEF Base

\* What the empty label after the last dot changes.
LEMMA LastLabel ==
  ASSUME NEW s \in Seq(Label), NEW e \in Label, s # << >>
  PROVE  /\ Append(s, e) \in Seq(Label) /\ Append(s, e)[1] = s[1]
         /\ Tail(Append(s, e)) = Append(Tail(s), e)
  <1>1. Len(s) \in Nat \ {0}
    BY EmptySeq, Zenon
  <1>2. 1 \in 1..Len(s)
    BY <1>1
  <1>3. /\ Append(s, e) \in Seq(Label)
        /\ \A i \in 1..Len(s) : Append(s, e)[i] = s[i]
    BY AppendProperties
  <1>4. Tail(Append(s, e)) = Append(Tail(s), e)
    BY HeadTailAppend, Zenon
  <1> QED  BY <1>2, <1>3, <1>4, Zenon

\* The labels findBestZone starts from: those of the name without its wildcard, and the empty
\* one at the end; the root has one more.
LEMMA StartLabels ==
  ASSUME NEW q \in Names
  PROVE  /\ Start(q) \in Seq(Label)
         /\ q = << >> => Start(q) = <<"", "">> /\ Base(q) = << >>
         /\ q # << >> => Start(q) = Append(Base(q), "")
  <1>1. q \in Seq(Label) /\ "" \in Label
    BY NamesAssumption
  <1>2. CASE q = << >>
    <2>1. Split(q) = <<"", "">> /\ Base(q) = << >>
      BY <1>2 DEF Split, Base
    <2>2. <<"", "">> \in Seq(Label)
      <3>1. \A e \in Label : <<e, e>> \in Seq(Label)
        OBVIOUS
      <3> QED  BY <1>1, <3>1, Zenon
    <2>3. <<"", "">>[1] = "" /\ "" # "*"
      OBVIOUS
    <2> QED  BY <1>2, <2>1, <2>2, <2>3, Zenon DEF Start, WithoutStar
  <1>3. CASE q # << >>
    <2>1. /\ Append(q, "") \in Seq(Label) /\ Append(q, "")[1] = q[1]
          /\ Tail(Append(q, "")) = Append(Tail(q), "")
      BY <1>1, <1>3, LastLabel, Zenon
    <2>2. Start(q) = IF q[1] = "*" THEN Tail(Append(q, "")) ELSE Append(q, "")
      BY <1>3, <2>1 DEF Start, Split, WithoutStar
    <2>3. Start(q) = Append(Base(q), "")
      BY <1>3, <2>1, <2>2 DEF Base
    <2>4. Append(Base(q), "") \in Seq(Label)
      BY <1>1, BaseNames, AppendProperties, Zenon
    <2> QED  BY <1>3, <2>3, <2>4, Zenon
  <1> QED  BY <1>2, <1>3
\* Joining what is left of the labels after k of them gives the name less k labels.
LEMMA JoinDropped ==
  ASSUME NEW s \in Seq(Label), NEW e \in Label, NEW k \in 0..Len(s),
         \A i \in 1..Len(s) : s[i] # e
  PROVE  LET left == Drop(Append(s, e), k)
         IN  left # <<e, e>> /\ SubSeq(left, 1, Len(left) - 1) = Drop(s, k)
  <1> DEFINE left == Drop(Append(s, e), k)
  <1>1. Len(s) \in Nat
    BY LenProperties, Zenon
  <1>2. /\ Append(s, e) \in Seq(Label) /\ Len(Append(s, e)) = Len(s) + 1
        /\ \A i \in 1..Len(s) : Append(s, e)[i] = s[i]
    BY AppendProperties
  <1>3. k \in 0..Len(Append(s, e))
    BY <1>1, <1>2
  <1>4. /\ left \in Seq(Label) /\ Len(left) = Len(Append(s, e)) - k
        /\ \A i \in 1..(Len(Append(s, e)) - k) : left[i] = Append(s, e)[k + i]
    BY <1>2, <1>3, LabelsOfTail, Zenon
  <1>5. /\ Drop(s, k) \in Seq(Label) /\ Len(Drop(s, k)) = Len(s) - k
        /\ \A i \in 1..(Len(s) - k) : Drop(s, k)[i] = s[k + i]
    BY LabelsOfTail, Zenon
  <1>6. left # <<e, e>>
    <2>1. SUFFICES ASSUME left = <<e, e>>  PROVE FALSE
      OBVIOUS
    <2>2. Len(left) = 2 /\ left[1] = e
      BY <2>1
    <2>3. 1 \in 1..(Len(Append(s, e)) - k) /\ k + 1 \in 1..Len(s)
      <3>1. Len(left) = 2 /\ Len(left) = Len(s) + 1 - k
        <4> DEFINE a == Append(s, e)
        <4> HIDE DEF left, a
        <4>1. Len(a) = Len(s) + 1 /\ Len(left) = Len(a) - k /\ Len(left) = 2
          BY <1>2, <1>4, <2>2, Zenon DEF a
        <4>2. \A x, y \in Nat : x = y + 1 => x - k = y + 1 - k
          BY <1>1
        <4>3. Len(a) - k = Len(s) + 1 - k
          BY <1>1, <4>1, <4>2
        <4> QED  BY <4>1, <4>3, Zenon
      <3> HIDE DEF left
      <3> QED  BY <1>1, <1>2, <3>1
    <2>4. left[1] = s[k + 1]
      BY <1>2, <1>4, <2>3, Zenon
    <2> QED  BY <2>2, <2>3, <2>4, Zenon
  <1>7. SubSeq(left, 1, Len(left) - 1) = Drop(s, k)
    <2>1. Len(left) = Len(s) - k + 1 /\ Len(left) - 1 = Len(s) - k /\ Len(s) - k \in Nat
      BY <1>1, <1>2, <1>4
    <2>2. \A i \in 1..(Len(s) - k) : left[i] \in Label /\ left[i] = s[k + i]
      BY <1>1, <1>2, <1>4, <2>1, ElementOfSeq
    <2>3. /\ SubSeq(left, 1, Len(s) - k) \in Seq(Label)
          /\ Len(SubSeq(left, 1, Len(s) - k)) = Len(s) - k
          /\ \A i \in 1..(Len(s) - k) : SubSeq(left, 1, Len(s) - k)[i] = left[i]
      <3> DEFINE n == Len(s) - k
      <3> HIDE DEF n, left
      <3>1. n \in Nat /\ \A i \in 1..n : left[i] \in Label
        BY <2>1, <2>2 DEF n
      <3>2. /\ SubSeq(left, 1, n) \in Seq(Label)
            /\ Len(SubSeq(left, 1, n)) = IF 1 <= n THEN n - 1 + 1 ELSE 0
            /\ \A i \in 1..(n - 1 + 1) : SubSeq(left, 1, n)[i] = left[1 + i - 1]
        BY <3>1, SubSeqProperties
      <3> QED  BY <3>1, <3>2 DEF n
    <2> HIDE DEF left
    <2>4. \A i \in 1..Len(Drop(s, k)) : SubSeq(left, 1, Len(s) - k)[i] = Drop(s, k)[i]
      BY <1>5, <2>2, <2>3
    <2> QED  BY <1>5, <2>1, <2>3, <2>4, SeqEqual
  <1> QED  BY <1>6, <1>7

\* The candidates are the enclosing names in order, the closest first.  The root is asked for
\* last (a request for the root asks twice).
LEMMA Candidates ==
  ASSUME NEW q \in Names
  PROVE  /\ \A k \in 0..(Len(Start(q)) - 1) : Candidate(q, k) \in Enclosing(q)
         /\ \A z \in Enclosing(q) : \E j \in 0..(Len(Start(q)) - 1) :
              /\ z = Candidate(q, j)
              /\ \A k \in 0..j : Len(z) <= Len(Candidate(q, k))
  <1> DEFINE b == Base(q)
  <1>1. b \in Seq(Label) /\ \A i \in 1..Len(b) : b[i] # ""
    BY BaseNames
  <1>0. Len(b) \in Nat
    BY <1>1, LenProperties, Zenon
  <1>2. \A k \in 0..Len(b) : Drop(b, k) \in Seq(Label) /\ Len(Drop(b, k)) = Len(b) - k
                               /\ \A i \in 1..(Len(b) - k) : Drop(b, k)[i] = b[k + i]
    BY <1>1, LabelsOfTail, Zenon
  <1>3. CASE q = << >>
    <2>1. Start(q) = <<"", "">> /\ b = << >>
      BY <1>3, StartLabels
    <2>2. "" \in Label
      BY NamesAssumption
    <2>3. ASSUME NEW e \in Label
          PROVE  /\ Len(<<e, e>>) = 2 /\ Drop(<<e, e>>, 0) = <<e, e>> /\ Drop(<<e, e>>, 1) = <<e>>
                 /\ Len(<<e>>) = 1 /\ <<e>> # <<e, e>> /\ SubSeq(<<e>>, 1, 0) = << >>
      <3>1. Len(<<e, e>>) = 2 /\ Len(<<e>>) = 1 /\ <<e, e>> \in Seq(Label) /\ <<e>> \in Seq(Label)
        OBVIOUS
      <3>2. <<e>> # <<e, e>>
        BY <3>1
      <3>3. SubSeq(<<e>>, 1, 0) = << >>
        BY SubSeqEmpty
      <3>4. Drop(<<e, e>>, 0) = <<e, e>>
        BY <3>1, DropNone, Zenon
      <3>5. Drop(<<e, e>>, 1) = <<e>>
        <4>1. Drop(<<e, e>>, 1) = Tail(<<e, e>>)
          <5>1. <<e, e>> # << >>
            OBVIOUS
          <5> QED  BY <3>1, <5>1, DropNone, Zenon
        <4> QED  BY <4>1
      <3> QED  BY <3>1, <3>2, <3>3, <3>4, <3>5
    <2>4. /\ Len(Start(q)) = 2
          /\ Candidate(q, 0) = << >> /\ Candidate(q, 1) = << >>
      <3>1. Drop(Start(q), 0) = <<"", "">> /\ Drop(Start(q), 1) = <<"">> /\ Len(Start(q)) = 2
        BY <2>1, <2>2, <2>3, Zenon
      <3>2. Join(<<"", "">>) = << >>
        BY Zenon DEF Join
      <3>3. Join(<<"">>) = SubSeq(<<"">>, 1, 1 - 1)
        BY <2>2, <2>3, Zenon DEF Join
      <3>4. Join(<<"">>) = << >>
        <4>1. 1 - 1 = 0
          OBVIOUS
        <4> QED  BY <2>2, <2>3, <3>3, <4>1, Zenon
      <3> QED  BY <3>1, <3>2, <3>4, Zenon DEF Candidate
    <2>5. Enclosing(q) = {<< >>}
      <3>1. Len(b) = 0 /\ Drop(b, 0) = << >>
        BY <1>1, <2>1, EmptySeq, DropNone, Zenon
      <3> QED  BY <3>1 DEF Enclosing
    <2>6. Len(<< >>) = 0 /\ 0..(2 - 1) = {0, 1} /\ \A j \in {0, 1} : 0..j \subseteq {0, 1}
      BY EmptySeq
    <2> HIDE DEF b
    <2> QED  BY <2>4, <2>5, <2>6
  <1>4. CASE q # << >>
    <2>1. Start(q) = Append(b, "") /\ "" \in Label
      BY <1>4, StartLabels, NamesAssumption
    <2>2. Len(Start(q)) = Len(b) + 1
      <3>1. \A e \in Label : Len(Append(b, e)) = Len(b) + 1
        BY <1>1, AppendProperties
      <3> QED  BY <2>1, <3>1, Zenon
    <2>3. ASSUME NEW k \in 0..Len(b)  PROVE Candidate(q, k) = Drop(b, k)
      <3> DEFINE left == Drop(Append(b, ""), k)
      <3>1. left # <<"", "">> /\ SubSeq(left, 1, Len(left) - 1) = Drop(b, k)
        BY <1>1, <2>1, JoinDropped, Zenon
      <3>2. Candidate(q, k) = Join(left)
        BY <2>1, Zenon DEF Candidate
      <3> HIDE DEF left
      <3> QED  BY <3>1, <3>2, Zenon DEF Join
    <2> HIDE DEF b
    <2>4. 0..(Len(Start(q)) - 1) = 0..Len(b)
      BY <1>0, <2>2
    <2>5. Enclosing(q) = {Drop(b, k) : k \in 0..Len(b)}
      BY DEF b, Enclosing
    <2>6. \A k \in 0..Len(b) : Candidate(q, k) \in Enclosing(q)
      BY <2>3, <2>5
    <2>7. ASSUME NEW j \in 0..Len(b), NEW k \in 0..j
          PROVE  k \in 0..Len(b) /\ Len(Drop(b, j)) <= Len(Drop(b, k))
      <3>1. k \in 0..Len(b) /\ Len(b) - j <= Len(b) - k
        BY <1>0
      <3> QED  BY <1>2, <3>1, Zenon
    <2> QED  BY <2>3, <2>4, <2>5, <2>6, <2>7
  <1> QED  BY <1>3, <1>4
-----------------------------------------------------------------------------
(* The inductive invariant.                                                *)

\* The loop is at the k-th candidate and, when no query failed, saw each closer one absent;
\* what it found is the candidate it stopped at.
Asked ==
  \E k \in 0..Len(Start(qname)) :
    /\ labels = Drop(Start(qname), k)
    /\ failed \/ \A j \in 0..(k - 1) : Candidate(qname, j) \notin throughout
    /\ \/ pc = "find" /\ found = {}
       \/ pc \in {"read"} \union Ended /\ k < Len(Start(qname)) /\ found = {Candidate(qname, k)}
       \/ pc = "refused" /\ k = Len(Start(qname)) /\ found = {}

LookupInv == TypeOK /\ (pc = "idle" \/ Asked)

\* What BestZone says of a request the loop is done with follows from where the loop stopped.
LEMMA AskedBest == LookupInv => BestZone
  <1> SUFFICES ASSUME LookupInv, pc \in {"read"} \union Ended
               PROVE  /\ found \subseteq Enclosing(qname)
                      /\ failed \/ \A z \in Enclosing(qname) \intersect throughout :
                           \E f \in found : Len(z) <= Len(f)
    BY DEF BestZone, LookupInv
  <1> DEFINE N == Len(Start(qname))
  <1>1. qname \in Names /\ N \in Nat
    BY StartLabels, LenProperties DEF LookupInv, TypeOK
  <1>2. PICK k \in 0..N : /\ failed \/ \A j \in 0..(k - 1) : Candidate(qname, j) \notin throughout
                         /\ \/ k < N /\ found = {Candidate(qname, k)}
                            \/ k = N /\ found = {}
    BY DEF LookupInv, Asked, Ended
  <1>3. /\ \A i \in 0..(N - 1) : Candidate(qname, i) \in Enclosing(qname)
        /\ \A z \in Enclosing(qname) : \E j \in 0..(N - 1) :
             /\ z = Candidate(qname, j)
             /\ \A i \in 0..j : Len(z) <= Len(Candidate(qname, i))
    BY <1>1, Candidates
  <1> HIDE DEF N
  <1>4. found \subseteq Enclosing(qname)
    BY <1>1, <1>2, <1>3
  <1>5. ASSUME ~failed, NEW z \in Enclosing(qname) \intersect throughout
        PROVE  \E f \in found : Len(z) <= Len(f)
    <2>1. PICK j \in 0..(N - 1) : /\ z = Candidate(qname, j)
                                 /\ \A i \in 0..j : Len(z) <= Len(Candidate(qname, i))
      BY <1>3, <1>5
    <2>2. j \notin 0..(k - 1)
      BY <1>2, <1>5, <2>1
    <2>3. k \in 0..j /\ k < N
      BY <1>1, <2>2
    <2> QED  BY <1>2, <2>1, <2>3
  <1> QED  BY <1>4, <1>5

\* A request none of whose queries failed is answered from the closest zone that stayed, for
\* every set of names and zones and under every edit.
THEOREM ClosestZone == Spec => []BestZone
  <1>1. Init => LookupInv
    BY NamesAssumption DEF Init, LookupInv, TypeOK, Ended
  <1>2. ASSUME LookupInv, [Next]_vars  PROVE LookupInv'
    <2> DEFINE N == Len(Start(qname))
    <2>1. TypeOK /\ qname \in Names /\ ZoneNames \subseteq Names
      BY <1>2, NamesAssumption DEF LookupInv, TypeOK
    <2>2. Start(qname) \in Seq(Label) /\ N \in Nat
      BY <2>1, StartLabels, LenProperties, Zenon
    <2>3. ASSUME NEW kk \in {"lookup", "list", "getDomainInfo", "getDomainMetadata"},
                 NEW q \in Names, Request(kk, q)
          PROVE  LookupInv'
      <3>1. TypeOK'
        BY <2>1, <2>3 DEF Request, TypeOK, Ended
      <3>2. qname' = q /\ labels' = Start(q) /\ pc' = "find" /\ found' = {}
        BY <2>3 DEF Request, Start
      <3>3. Start(q) \in Seq(Label) /\ Len(Start(q)) \in Nat
        BY StartLabels, LenProperties, Zenon
      <3>4. Drop(Start(q), 0) = Start(q)
        BY <3>3, DropNone, Zenon
      <3>5. 0 \in 0..Len(Start(q)) /\ 0..(0 - 1) = {}
        BY <3>3
      <3>6. Asked'
        BY <3>2, <3>4, <3>5, Zenon DEF Asked
      <3> QED  BY <3>1, <3>6 DEF LookupInv
    <2>4. CASE Handler
      <3>1. Asked /\ qname' = qname /\ kind' = kind /\ zones' = zones /\ throughout' = throughout
        BY <1>2, <2>4 DEF LookupInv, Handler, Find, Miss, QueryFails, NoZone, Read, Ends, lookup, list, getDomainInfo, getDomainMetadata, request
      <3>2. PICK k \in 0..N :
              /\ labels = Drop(Start(qname), k)
              /\ failed \/ \A j \in 0..(k - 1) : Candidate(qname, j) \notin throughout
              /\ \/ pc = "find" /\ found = {}
                 \/ pc \in {"read"} \union Ended /\ k < N /\ found = {Candidate(qname, k)}
                 \/ pc = "refused" /\ k = N /\ found = {}
        BY <3>1, Zenon DEF Asked
      <3>3. (labels = << >> <=> k = N) /\ (k < N => Tail(labels) = Drop(Start(qname), k + 1))
        BY <2>2, <3>2, LabelsOfTail, Zenon
      <3>4. Join(labels) = Candidate(qname, k)
        BY <3>2 DEF Candidate
      <3> HIDE DEF N
      <3>5. CASE Find
        <4>1. TypeOK'
          BY <2>1, <3>1, <3>5 DEF Find, TypeOK, Ended, request
        <4>2. /\ k < N /\ labels' = labels /\ found' = {Candidate(qname, k)}
              /\ pc' \in {"read", "refused"} /\ failed' = failed
          BY <2>2, <3>2, <3>3, <3>4, <3>5 DEF Find, request
        <4>3. Asked'
          BY <3>1, <3>2, <4>2 DEF Asked, N, Ended
        <4> QED  BY <4>1, <4>3 DEF LookupInv
      <3>6. CASE Miss
        <4>1. TypeOK'
          BY <2>1, <3>1, <3>6 DEF Miss, TypeOK, request
        <4>2. /\ k < N /\ labels' = Tail(labels) /\ pc' = "find" /\ found' = {}
              /\ Candidate(qname, k) \notin zones /\ failed' = failed
          BY <2>2, <3>2, <3>3, <3>4, <3>6 DEF Miss, Shortened, Ended, request
        <4>3. Candidate(qname, k) \notin throughout
          BY <2>1, <4>2 DEF TypeOK
        <4>4. k + 1 \in 0..N /\ (failed \/ \A j \in 0..((k + 1) - 1) : Candidate(qname, j) \notin throughout)
          BY <2>2, <3>2, <4>2, <4>3
        <4>5. labels' = Drop(Start(qname), k + 1)
          BY <3>3, <4>2
        <4>6. Asked'
          BY <3>1, <4>2, <4>4, <4>5, Zenon DEF Asked, N
        <4> QED  BY <4>1, <4>6 DEF LookupInv
      <3>7. CASE QueryFails
        <4>1. TypeOK'
          BY <2>1, <3>1, <3>7 DEF QueryFails, TypeOK
        <4>2. k < N /\ labels' = Tail(labels) /\ pc' = "find" /\ found' = {} /\ failed'
          BY <2>2, <3>2, <3>3, <3>7 DEF QueryFails, Shortened, Ended
        <4>3. k + 1 \in 0..N /\ labels' = Drop(Start(qname), k + 1)
          BY <2>2, <3>3, <4>2
        <4>4. Asked'
          BY <3>1, <4>2, <4>3, Zenon DEF Asked, N
        <4> QED  BY <4>1, <4>4 DEF LookupInv
      <3>8. CASE NoZone
        <4>1. TypeOK'
          BY <2>1, <3>1, <3>8 DEF NoZone, TypeOK, Ended, request
        <4>2. /\ k = N /\ labels' = labels /\ found' = found /\ found = {} /\ pc' = "refused"
              /\ failed' = failed
          BY <3>2, <3>3, <3>8 DEF NoZone, Ended, request
        <4>3. Asked'
          BY <3>1, <3>2, <4>2, Zenon DEF Asked, N
        <4> QED  BY <4>1, <4>3 DEF LookupInv
      <3>9. CASE Read
        <4>0. \E k0, ways : ways \subseteq Ended /\ Ends(k0, ways)
          <5>1. \A c, a, b : a \subseteq Ended /\ b \subseteq Ended => (IF c THEN a ELSE b) \subseteq Ended
            OBVIOUS
          <5> QED  BY <3>9 DEF Read, lookup, list, getDomainInfo, getDomainMetadata, Ended
        <4>1. TypeOK'
          BY <2>1, <3>1, <4>0 DEF Ends, TypeOK, Ended, request
        <4>2. /\ k < N /\ labels' = labels /\ found' = {Candidate(qname, k)} /\ pc' \in Ended
              /\ failed' = failed
          BY <3>2, <4>0 DEF Ends, Ended, request
        <4>3. Asked'
          BY <3>1, <3>2, <4>2 DEF Asked, N
        <4> QED  BY <4>1, <4>3 DEF LookupInv
      <3> QED  BY <2>4, <3>5, <3>6, <3>8, <3>9, <3>7 DEF Handler
    <2>5. CASE Edit
      <3>1. /\ pc' = pc /\ qname' = qname /\ labels' = labels /\ found' = found
            /\ failed' = failed /\ throughout' \subseteq throughout
        BY <2>5 DEF Edit, request
      <3>2. TypeOK'
        BY <2>1, <2>5 DEF Edit, TypeOK, request
      <3>3. Asked => Asked'
        BY <3>1 DEF Asked
      <3> QED  BY <1>2, <3>1, <3>2, <3>3 DEF LookupInv
    <2>6. CASE UNCHANGED vars
      BY <1>2, <2>6 DEF vars, request, LookupInv, TypeOK, Asked
    <2> QED  BY <1>2, <2>3, <2>4, <2>5, <2>6 DEF Next
  <1>3. QED  BY <1>1, <1>2, AskedBest, PTL DEF Spec

-----------------------------------------------------------------------------
(* The records of an answer *)

\* A set of finite sets has one that contains no other.
LEMMA SmallestSet ==
  ASSUME NEW F, F # {}, \A A \in F : IsFiniteSet(A)
  PROVE  \E A \in F : \A B \in F : B \subseteq A => B = A
  <1> DEFINE U == UNION F
             R == StrictSubsetOrdering(U)
  <1>1. IsWellFoundedOn(R, FiniteSubsetsOf(U))
    BY FS_StrictSubsetOrderingWellFounded
  <1>2. F \subseteq FiniteSubsetsOf(U)
    BY DEF FiniteSubsetsOf
  <1>3. \A A, B \in F : B \subseteq A /\ B # A => <<B, A>> \in R
    BY DEF StrictSubsetOrdering
  <1> HIDE DEF R
  <1>4. PICK A \in F : \A B \in F : <<B, A>> \notin R
    BY <1>1, <1>2, WFMin
  <1> QED  BY <1>3, <1>4

\* Record j of v is set after record i of the same key.
After(v, key, i) == {j \in Of(v, key) : SetBefore(v, i, j)}

LEMMA Transferred ==
  ASSUME NEW v \in Transfers \union {<< >>}
  PROVE  /\ Len(v) \in Nat /\ DOMAIN v = 1..Len(v)
         /\ \A i \in DOMAIN v : v[i].ttl \in Nat
         /\ \A i \in DOMAIN v :
              v[i] = [owner |-> v[i].owner, type |-> v[i].type, ttl |-> v[i].ttl, content |-> v[i].content]
  <1>1. CASE v = << >>
    BY <1>1
  <1>2. CASE v \in Transfers
    <2>1. v \in Seq({v[i] : i \in DOMAIN v})
      BY <1>2, RecordsAssumption DEF IsSeq
    <2>2. Len(v) \in Nat /\ DOMAIN v = 1..Len(v)
      BY <2>1, LenProperties
    <2> QED  BY <1>2, <2>2, RecordsAssumption
  <1> QED  BY <1>1, <1>2

\* The records of a key have a last one in the order in which they are set, and it has their
\* greatest TTL.
LEMMA LastOne ==
  ASSUME NEW v \in Transfers \union {<< >>}, NEW key, Of(v, key) # {}
  PROVE  /\ LastSet(v, key) \in Of(v, key)
         /\ \A j \in Of(v, key) : v[j].ttl <= v[LastSet(v, key)].ttl
  <1>1. Len(v) \in Nat /\ DOMAIN v = 1..Len(v) /\ \A i \in DOMAIN v : v[i].ttl \in Nat
    BY Transferred
  <1>2. Of(v, key) \subseteq 1..Len(v) /\ \A i \in Of(v, key) : i \in Nat /\ v[i].ttl \in Nat
    BY <1>1 DEF Of
  <1>3. /\ \A i, j \in Of(v, key) : i = j \/ SetBefore(v, i, j) \/ SetBefore(v, j, i)
        /\ \A i \in Of(v, key) : ~SetBefore(v, i, i)
        /\ \A i, j, k \in Of(v, key) : SetBefore(v, i, j) /\ SetBefore(v, j, k) => SetBefore(v, i, k)
        /\ \A i, j \in Of(v, key) : SetBefore(v, i, j) => v[i].ttl <= v[j].ttl
    BY <1>2 DEF SetBefore
  <1> DEFINE F == {After(v, key, i) : i \in Of(v, key)}
  <1>4. F # {} /\ \A A \in F : IsFiniteSet(A)
    <2>1. IsFiniteSet(1..Len(v))
      <3>1. 1 \in Int /\ Len(v) \in Int
        BY <1>1
      <3> QED  BY <3>1, FS_Interval, Zenon
    <2>2. \A i \in Of(v, key) : After(v, key, i) \subseteq 1..Len(v)
      BY <1>2 DEF After
    <2> QED  BY <2>1, <2>2, FS_Subset
  <1>5. PICK A \in F : \A B \in F : B \subseteq A => B = A
    <2> HIDE DEF F
    <2> QED  BY <1>4, SmallestSet
  <1>6. PICK i \in Of(v, key) : A = After(v, key, i)
    BY <1>5
  <1>7. \A j \in Of(v, key) \ {i} : SetBefore(v, j, i)
    <2> SUFFICES ASSUME NEW j \in Of(v, key), j # i, ~SetBefore(v, j, i)  PROVE FALSE
      OBVIOUS
    <2>1. SetBefore(v, i, j)
      BY <1>3
    <2>2. After(v, key, j) \subseteq After(v, key, i)
      BY <1>3, <2>1 DEF After
    <2>3. j \in After(v, key, i) /\ j \notin After(v, key, j)
      BY <1>3, <2>1 DEF After
    <2> QED  BY <1>5, <1>6, <2>2, <2>3
  <1>8. LastSet(v, key) \in Of(v, key) /\ \A j \in Of(v, key) \ {LastSet(v, key)} : SetBefore(v, j, LastSet(v, key))
    BY <1>7, Zenon DEF LastSet
  <1>9. ASSUME NEW j \in Of(v, key)  PROVE v[j].ttl <= v[LastSet(v, key)].ttl
    BY <1>2, <1>3, <1>8
  <1> QED  BY <1>8, <1>9

\* A content of the fields its type has is put together as it was taken apart.
LEMMA FieldsKept ==
  ASSUME NEW v \in Transfers \union {<< >>}, NEW i \in DOMAIN v, ~Refused(v[i])
  PROVE  v[i].type \in Known /\ Content(v[i].type, Nodes(v[i].type, v[i].content)) = v[i].content
  <1>1. v[i].type \in Known /\ (v[i].type \in DOMAIN Parts => ~(Len(v[i].content) < Parts[v[i].type]))
    BY Zenon DEF Refused
  <1>2. /\ IsSeq(v[i].content)
        /\ v[i].type \in DOMAIN Parts => Len(v[i].content) <= Parts[v[i].type]
    BY RecordsAssumption
  <1> DEFINE c == v[i].content
             S == {c[k] : k \in DOMAIN c}
  <1>3. c \in Seq(S)
    BY <1>2 DEF IsSeq
  <1>4. Len(c) \in Nat /\ DOMAIN c = 1..Len(c) /\ c = [k \in 1..Len(c) |-> c[k]]
    BY <1>3, LenProperties
  <1> HIDE DEF c, S
  <1>5. CASE v[i].type = "SOA"
    <2>1. v[i].type \in DOMAIN Parts /\ Parts[v[i].type] = 7
      BY <1>5 DEF Parts
    <2>2. Len(c) = 7
      <3>1. Len(c) <= 7 /\ ~(Len(c) < 7)
        BY <1>1, <1>2, <2>1, Zenon DEF c
      <3> QED  BY <1>4, <3>1
    <2>3. c = <<c[1], c[2], c[3], c[4], c[5], c[6], c[7]>>
      BY <1>3, <1>4, <2>2
    <2> QED  BY <1>1, <1>5, <2>3 DEF Content, Nodes, c
  <1>6. CASE v[i].type = "MX"
    <2>1. v[i].type \in DOMAIN Parts /\ Parts[v[i].type] = 2
      BY <1>6 DEF Parts
    <2>2. Len(c) = 2
      <3>1. Len(c) <= 2 /\ ~(Len(c) < 2)
        BY <1>1, <1>2, <2>1, Zenon DEF c
      <3> QED  BY <1>4, <3>1
    <2>3. c = <<c[1], c[2]>>
      BY <1>3, <1>4, <2>2
    <2> QED  BY <1>1, <1>6, <2>3 DEF Content, Nodes, c
  <1>7. CASE v[i].type = "SRV"
    <2>1. v[i].type \in DOMAIN Parts /\ Parts[v[i].type] = 4
      BY <1>7 DEF Parts
    <2>2. Len(c) = 4
      <3>1. Len(c) <= 4 /\ ~(Len(c) < 4)
        BY <1>1, <1>2, <2>1, Zenon DEF c
      <3> QED  BY <1>4, <3>1
    <2>3. c = <<c[1], c[2], c[3], c[4]>>
      BY <1>3, <1>4, <2>2
    <2> QED  BY <1>1, <1>7, <2>3 DEF Content, Nodes, c
  <1>8. CASE v[i].type \notin {"SOA", "MX", "SRV"}
    BY <1>1, <1>8 DEF Content, Nodes
  <1> QED  BY <1>5, <1>6, <1>7, <1>8

\* What the answer has of record i of v: the record, with the TTL set last for its key.
Key(v, i) == <<v[i].owner, v[i].type>>
Told(v, i) == [owner |-> v[i].owner, type |-> v[i].type, ttl |-> v[LastSet(v, Key(v, i))].ttl,
               content |-> v[i].content]
Asks(v, owner, type) == {i \in DOMAIN v : v[i].owner = owner /\ (type = "ANY" \/ v[i].type = type)}

\* The entry of record i has, of every record of its key, the content.
LEMMA EntryTells ==
  ASSUME NEW v \in Transfers \union {<< >>}, \A i \in DOMAIN v : ~Refused(v[i]), Proper(v), NEW i \in DOMAIN v
  PROVE  getRecordsFromRRSetNode(Entry(v, Key(v, i))) = {Told(v, j) : j \in Of(v, Key(v, i))}
  <1> DEFINE key == Key(v, i)
             e == Entry(v, key)
             kept == IF key[2] \in Single THEN {LastSet(v, key)} ELSE Of(v, key)
  <1>1. i \in Of(v, key) /\ key[1] = v[i].owner /\ key[2] = v[i].type
    BY DEF Of, Key
  <1>2. LastSet(v, key) \in Of(v, key)
    BY <1>1, LastOne
  <1>3. \A j \in Of(v, key) : j \in DOMAIN v /\ v[j].owner = key[1] /\ v[j].type = key[2] /\ Key(v, j) = key
    BY <1>1 DEF Of, Key
  <1>4. kept = Of(v, key)
    <2>1. ASSUME key[2] \in Single, NEW j \in Of(v, key)  PROVE j = LastSet(v, key)
      BY <1>2, <1>3, <2>1 DEF Proper
    <2> QED  BY <1>2, <2>1
  <1>5. /\ e.owner = key[1] /\ e.type = key[2] /\ e.ttl = v[LastSet(v, key)].ttl
        /\ e.rdata = {Nodes(key[2], v[j].content) : j \in Of(v, key)}
    BY <1>4 DEF Entry
  <1>6. \A j \in Of(v, key) : Content(key[2], Nodes(key[2], v[j].content)) = v[j].content
    BY <1>3, FieldsKept
  <1> HIDE DEF key, e, kept
  <1>7. getRecordsFromRRSetNode(e) =
          {[owner |-> e.owner, type |-> e.type, ttl |-> e.ttl, content |-> v[j].content] : j \in Of(v, key)}
    <2>1. getRecordsFromRRSetNode(e) =
            {[owner |-> e.owner, type |-> e.type, ttl |-> e.ttl,
              content |-> Content(key[2], Nodes(key[2], v[j].content))] : j \in Of(v, key)}
      BY <1>5 DEF getRecordsFromRRSetNode
    <2> QED  BY <1>6, <2>1
  <1>8. \A j \in Of(v, key) :
          Told(v, j) = [owner |-> e.owner, type |-> e.type, ttl |-> e.ttl, content |-> v[j].content]
    BY <1>3, <1>5 DEF Told
  <1> QED  BY <1>7, <1>8 DEF key, e

LEMMA AnswerTells ==
  ASSUME NEW v \in Transfers \union {<< >>}, \A i \in DOMAIN v : ~Refused(v[i]), Proper(v),
         rrsetState = Stored(v), NEW owner, NEW type
  PROVE  lookupRecords(owner, type) = {Told(v, i) : i \in Asks(v, owner, type)}
  <1> DEFINE entries == {e \in rrsetState : e.owner = owner /\ (type = "ANY" \/ e.type = type)}
  <1>1. \A i \in DOMAIN v : Entry(v, Key(v, i)).owner = v[i].owner /\ Entry(v, Key(v, i)).type = v[i].type
    BY DEF Entry, Key
  <1>2. entries = {Entry(v, Key(v, i)) : i \in Asks(v, owner, type)}
    BY <1>1 DEF Stored, Asks, Key
  <1>3. \A i \in Asks(v, owner, type) : Of(v, Key(v, i)) \subseteq Asks(v, owner, type) /\ i \in Of(v, Key(v, i))
    BY DEF Asks, Of, Key
  <1>4. \A i \in Asks(v, owner, type) :
          getRecordsFromRRSetNode(Entry(v, Key(v, i))) = {Told(v, j) : j \in Of(v, Key(v, i))}
    BY EntryTells DEF Asks
  <1>5. lookupRecords(owner, type) = UNION {getRecordsFromRRSetNode(s) : s \in entries}
    BY DEF lookupRecords
  <1> HIDE DEF entries
  <1>6. {getRecordsFromRRSetNode(s) : s \in entries} =
          {{Told(v, j) : j \in Of(v, Key(v, i))} : i \in Asks(v, owner, type)}
    <2>1. {getRecordsFromRRSetNode(s) : s \in entries} =
            {getRecordsFromRRSetNode(Entry(v, Key(v, i))) : i \in Asks(v, owner, type)}
      BY <1>2
    <2> QED  BY <1>4, <2>1
  <1>7. lookupRecords(owner, type) = UNION {{Told(v, j) : j \in Of(v, Key(v, i))} : i \in Asks(v, owner, type)}
    BY <1>5, <1>6
  <1>8. ASSUME NEW i \in Asks(v, owner, type)  PROVE Told(v, i) \in lookupRecords(owner, type)
    BY <1>3, <1>7
  <1>9. ASSUME NEW r \in lookupRecords(owner, type)  PROVE \E i \in Asks(v, owner, type) : r = Told(v, i)
    <2>1. PICK i \in Asks(v, owner, type) : r \in {Told(v, j) : j \in Of(v, Key(v, i))}
      BY <1>7
    <2> QED  BY <1>3, <2>1
  <1> QED  BY <1>8, <1>9

LEMMA ExpectedTold ==
  ASSUME NEW v \in Transfers \union {<< >>}, NEW owner, NEW type
  PROVE  Expected(v, owner, type) = {Told(v, i) : i \in Asks(v, owner, type)}
  <1> DEFINE mine == {v[i] : i \in Asks(v, owner, type)}
             Greatest(r) == CHOOSE t \in {q.ttl : q \in {p \in mine : p.type = r.type}} :
                              \A q \in mine : q.type = r.type => q.ttl <= t
  <1>1. Expected(v, owner, type) = {[r EXCEPT !.ttl = Greatest(r)] : r \in mine}
    BY DEF Expected, Asks
  <1>2. ASSUME NEW i \in Asks(v, owner, type)  PROVE [v[i] EXCEPT !.ttl = Greatest(v[i])] = Told(v, i)
    <2> DEFINE l == LastSet(v, Key(v, i))
               T == {q.ttl : q \in {p \in mine : p.type = v[i].type}}
    <2>1. i \in DOMAIN v /\ i \in Of(v, Key(v, i)) /\ v[i].owner = owner
      BY DEF Asks, Of, Key
    <2>2. l \in Of(v, Key(v, i)) /\ \A j \in Of(v, Key(v, i)) : v[j].ttl <= v[l].ttl
      BY <2>1, LastOne
    <2>3. \A j \in Asks(v, owner, type) : v[j].type = v[i].type <=> j \in Of(v, Key(v, i))
      BY <2>1 DEF Asks, Of, Key
    <2>4. l \in Asks(v, owner, type) /\ v[l].type = v[i].type
      BY <2>1, <2>2 DEF Asks, Of, Key
    <2>5. \A j \in DOMAIN v : v[j].ttl \in Nat
      BY Transferred
    <2>6. v[l].ttl \in T /\ \A q \in mine : q.type = v[i].type => q.ttl <= v[l].ttl
      BY <2>2, <2>3, <2>4
    <2>7. \A t \in T : t \in Nat
      BY <2>5 DEF Asks
    <2>8. ASSUME NEW t \in T, \A q \in mine : q.type = v[i].type => q.ttl <= t  PROVE t = v[l].ttl
      <3>1. v[l].ttl <= t
        BY <2>4, <2>8
      <3>2. t <= v[l].ttl
        BY <2>6
      <3>3. t \in Nat /\ v[l].ttl \in Nat
        BY <2>6, <2>7, <2>8
      <3> QED  BY <3>1, <3>2, <3>3
    <2>9. Greatest(v[i]) = v[l].ttl
      BY <2>6, <2>8
    <2>10. v[i] = [owner |-> v[i].owner, type |-> v[i].type, ttl |-> v[i].ttl, content |-> v[i].content]
      BY <2>1, Transferred
    <2> HIDE DEF Greatest, l, mine
    <2>11. [v[i] EXCEPT !.ttl = v[l].ttl] =
             [owner |-> v[i].owner, type |-> v[i].type, ttl |-> v[l].ttl, content |-> v[i].content]
      BY <2>10
    <2> QED  BY <2>9, <2>11 DEF Told, l
  <1> HIDE DEF Greatest
  <1> QED  BY <1>1, <1>2

RecInv ==
  /\ committed \in Transfers \union {<< >>}
  /\ \A i \in DOMAIN committed : ~Refused(committed[i])
  /\ rrsetState = Stored(committed)

\* For whatever transfers of proper records, applied or refused one after the other, and
\* whatever owner and type are asked for: the answer has the records of the last transfer
\* that was applied and all of them (commitTransaction, lookup, getRecordsFromRRSetNode).
THEOREM AnswersWhole == RecSpec => []AnswersTransferred
  <1>1. RecInit => RecInv
    BY DEF RecInit, RecInv, Stored
  <1>2. RecInv /\ [RecNext]_recVars => RecInv'
    <2> SUFFICES ASSUME RecInv, [RecNext]_recVars  PROVE RecInv'
      OBVIOUS
    <2>1. ASSUME NEW v \in Transfers, commitTransaction(v)  PROVE RecInv'
      <3>1. /\ committed' = v /\ rrsetState' = Stored(v)
            /\ \A i \in DOMAIN v : ~Refused(v[i])
        BY <2>1 DEF commitTransaction
      <3> QED  BY <3>1 DEF RecInv
    <2>2. CASE RestartBackend
      BY <2>2 DEF RestartBackend, RecInv, Stored
    <2>3. CASE UNCHANGED recVars
      BY <2>3 DEF recVars, RecInv
    <2> QED  BY <2>1, <2>2, <2>3 DEF RecNext, commitFails
  <1>3. RecInv => AnswersTransferred
    <2> SUFFICES ASSUME RecInv, Proper(committed), NEW owner \in Owners, NEW type \in Known \union {"ANY"}
                 PROVE  lookupRecords(owner, type) = Expected(committed, owner, type)
      BY DEF AnswersTransferred
    <2>1. lookupRecords(owner, type) = {Told(committed, i) : i \in Asks(committed, owner, type)}
      BY AnswerTells DEF RecInv
    <2>2. Expected(committed, owner, type) = {Told(committed, i) : i \in Asks(committed, owner, type)}
      BY ExpectedTold DEF RecInv
    <2> QED  BY <2>1, <2>2
  <1> QED  BY <1>1, <1>2, <1>3, PTL DEF RecSpec
=============================================================================
