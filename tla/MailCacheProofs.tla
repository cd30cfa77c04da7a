--------------------------- MODULE MailCacheProofs ---------------------------
(***************************************************************************)
(* For every number of mails: types, the agreement of the count of marked  *)
(* mails with the flags, and the completeness of a LIST.                   *)
(***************************************************************************)
EXTENDS MailCache, FiniteSetTheorems, TLAPS

Marked == {n \in Numbers : toDelete[n]}

LEMMA NumbersFinite == IsFiniteSet(Numbers) /\ Cardinality(Numbers) = mailCount
  <1>1. IsFiniteSet(1 .. mailCount)
        /\ Cardinality(1 .. mailCount) = IF 1 > mailCount THEN 0 ELSE mailCount - 1 + 1
    BY CountAssumption, FS_Interval
  <1> QED BY <1>1, CountAssumption DEF Numbers

LEMMA InitType == Init => TypeOK
  BY CountAssumption DEF Init, TypeOK

\* The count never exceeds the marks, whatever the login found, which gives it the
\* range of its type; when the passes of the login agree, it is their number.
Counted ==
    /\ listing = "login" => markedToDelete = 0
    /\ markedToDelete <= Cardinality(Marked)
    /\ LoginIsExact => markedToDelete = Cardinality(Marked)

LEMMA CountInRange ==
  ASSUME NEW S \in SUBSET Numbers
  PROVE  IsFiniteSet(S) /\ Cardinality(S) \in 0 .. mailCount
  <1>1. IsFiniteSet(S) /\ Cardinality(S) <= mailCount
    BY NumbersFinite, FS_Subset
  <1>2. Cardinality(S) \in Nat
    BY <1>1, FS_CardinalityType
  <1> QED BY <1>1, <1>2, CountAssumption

LEMMA InitCounted == Init => Counted
  <1> SUFFICES ASSUME Init PROVE Counted
    OBVIOUS
  <1>1. Cardinality(Marked) \in 0 .. mailCount
    BY CountInRange DEF Marked
  <1> QED BY <1>1, CountAssumption DEF Init, Counted, LoginIsExact

LEMMA PrintLineType ==
  ASSUME TypeOK, NEW info \in 0 .. mailCount, PrintLine(info)
  PROVE  TypeOK'
  <1>1. mailInfo' \in 0 .. mailCount /\ iterator' \in 0 .. mailCount
    <2>1. CASE Later # {}
      BY <2>1, CountAssumption DEF PrintLine, NextMail, Later, Valid, Numbers
    <2>2. CASE Later = {}
      BY <2>2, CountAssumption DEF PrintLine, NextMail
    <2> QED BY <2>1, <2>2
  <1> QED BY <1>1 DEF TypeOK, PrintLine

LEMMA NextInv == TypeOK /\ Counted /\ [Next]_vars => TypeOK' /\ Counted'
  <1> SUFFICES ASSUME TypeOK, Counted, [Next]_vars PROVE TypeOK' /\ Counted'
    OBVIOUS
  <1>1. CASE \E n \in Numbers : MarkMailToDelete(n)
    <2>1. PICK n \in Numbers : MarkMailToDelete(n)
      BY <1>1
    <2>2. toDelete' \in [Numbers -> BOOLEAN]
      BY <2>1 DEF TypeOK, MarkMailToDelete
    <2>3. Marked' = Marked \cup {n} /\ n \notin Marked
      BY <2>1 DEF TypeOK, MarkMailToDelete, validMailNo, Marked
    <2>4. IsFiniteSet(Marked)
      BY CountInRange DEF Marked
    <2>5. Cardinality(Marked') = Cardinality(Marked) + 1
      BY <2>3, <2>4, FS_AddElement
    <2>6. Cardinality(Marked) \in 0 .. mailCount /\ Cardinality(Marked') \in 0 .. mailCount
      <3>1. Marked \in SUBSET Numbers /\ Marked' \in SUBSET Numbers
        BY DEF Marked
      <3> QED BY <3>1, CountInRange
    <2>7. Counted'
      BY <2>1, <2>5, <2>6, CountAssumption
         DEF TypeOK, Counted, LoginIsExact, MarkMailToDelete, listVars
    <2>8. markedToDelete' \in 0 .. mailCount
      BY <2>1, <2>6, <2>7, CountAssumption DEF TypeOK, Counted, MarkMailToDelete
    <2> QED BY <2>1, <2>2, <2>7, <2>8 DEF TypeOK, MarkMailToDelete, listVars
  <1>2. CASE ResetToDelete
    <2>1. toDelete' \in [Numbers -> BOOLEAN] /\ Marked' = {}
      BY <1>2 DEF ResetToDelete, Marked
    <2>2. Counted'
      BY <1>2, <2>1, FS_EmptySet DEF ResetToDelete, Counted, listVars
    <2> QED BY <1>2, <2>1, <2>2, CountAssumption DEF TypeOK, ResetToDelete, listVars
  <1>3. CASE ListStarts
    BY <1>3, CountAssumption DEF ListStarts, TypeOK, Counted, LoginIsExact, Marked
  <1>4. CASE ListContinues
    <2>1. mailInfo \in 0 .. mailCount /\ PrintLine(mailInfo)
      BY <1>4 DEF ListContinues, TypeOK
    <2>2. TypeOK'
      BY <2>1, PrintLineType
    <2> QED BY <2>1, <2>2, <1>4 DEF ListContinues, PrintLine, Counted, LoginIsExact, Marked
  <1>5. CASE ListResumes
    <2>1. PICK junk \in 0 .. mailCount : PrintLine(junk)
      BY <1>5 DEF ListResumes
    <2>2. TypeOK'
      BY <2>1, PrintLineType
    <2> QED BY <2>1, <2>2, <1>5 DEF ListResumes, PrintLine, Counted, LoginIsExact, Marked
  <1>6. CASE ListPauses \/ ListEnds \/ UNCHANGED vars
    BY <1>6 DEF ListPauses, ListEnds, vars, TypeOK, Counted, LoginIsExact, Marked
  <1>7. CASE InitMailArray
    <2>1. Cardinality(Marked') \in 0 .. mailCount
      <3>1. Marked' \in SUBSET Numbers
        BY DEF Marked
      <3> QED BY <3>1, CountInRange
    <2>2. markedToDelete' = 0
      BY <1>7 DEF InitMailArray, Counted
    <2>3. LoginIsExact' => Marked' = {}
      <3>1. PICK found \in 0 .. mailCount + 1 :
              /\ entries' = found
              /\ toDelete' = [n \in Numbers |-> n > found /\ toDelete[n]]
        BY <1>7 DEF InitMailArray
      <3>2. found = mailCount => \A n \in Numbers : ~ toDelete'[n]
        <4> SUFFICES ASSUME found = mailCount, NEW n \in Numbers PROVE ~ toDelete'[n]
          OBVIOUS
        <4>1. toDelete'[n] = (n > found /\ toDelete[n])
          BY <3>1
        <4>2. ~ n > found
          BY CountAssumption DEF Numbers
        <4> QED BY <4>1, <4>2
      <3> QED BY <3>1, <3>2 DEF LoginIsExact, Marked, Numbers
    <2>4. Counted'
      BY <1>7, <2>1, <2>2, <2>3, FS_EmptySet, CountAssumption DEF InitMailArray, Counted
    <2> QED BY <1>7, <2>2, <2>4, CountAssumption DEF InitMailArray, TypeOK
  <1> QED BY <1>1, <1>2, <1>3, <1>4, <1>5, <1>6, <1>7 DEF Next

\* The flags and the count partition the mails.
LEMMA CountedAgrees == TypeOK /\ Counted => CountsAgree
  <1> SUFFICES ASSUME TypeOK, Counted, LoginIsExact PROVE CountsAgree
    BY DEF CountsAgree
  <1>1. Valid = Numbers \ Marked
    BY DEF Valid, Marked
  <1>2. Cardinality(Numbers \ Marked) = Cardinality(Numbers) - Cardinality(Numbers \cap Marked)
    BY NumbersFinite, FS_Difference
  <1>3. Numbers \cap Marked = Marked
    BY DEF Marked
  <1> QED BY <1>1, <1>2, <1>3, NumbersFinite DEF CountsAgree, Counted, Marked, getAmountOfMails

\* Whatever is marked, reset and marked again, the flags stay Boolean, the count of
\* them between zero and the number of mails, and the iterator in the array.
THEOREM CacheTyped == Spec => []TypeOK
  BY InitType, InitCounted, NextInv, PTL DEF Spec

\* STAT and LIST announce the number of mails that are not marked, for a maildrop of
\* any size.
THEOREM CountsStayAgreed == Spec => []CountsAgree
  BY InitType, InitCounted, NextInv, CountedAgrees, PTL DEF Spec

-----------------------------------------------------------------------------
(* The lines of a LIST *)

\* The mails the iterator has passed.
Passed == {n \in Valid : n <= iterator}

\* The lines s are one for each mail of S, in their order.
Lists(s, S) == Len(s) = Cardinality(S) /\ Ascending(s) /\ Listed(s) = S

\* Up to the last mail the lines are those of the mails passed.  If the last mails
\* of the array are marked, the last round of the loop prints one line more.
ExtraLine ==
    /\ iterator = mailCount /\ toDelete[mailCount]
    /\ Len(lines) = announced + 1
    /\ Lists(SubSeq(lines, 1, announced), Valid)

ListingInv ==
    LoginIsExact /\ listing \in {"running", "paused"} =>
        /\ announced = Cardinality(Valid)
        /\ Lists(lines, Passed) \/ ExtraLine
        /\ listing = "paused" => iterator < mailCount

\* One mail behind all those listed.
LEMMA OneMoreLine ==
  ASSUME NEW s \in Seq(Nat), NEW S \in SUBSET Numbers, Lists(s, S),
         NEW n \in Numbers, \A m \in S : m < n
  PROVE  Lists(Append(s, n), S \cup {n})
  <1> DEFINE t == Append(s, n)
  <1>1. /\ t \in Seq(Nat) /\ Len(t) = Len(s) + 1 /\ Len(s) \in Nat
        /\ \A i \in 1 .. Len(s) : t[i] = s[i]
        /\ t[Len(s) + 1] = n
    BY DEF Numbers
  <1>2. DOMAIN s = 1 .. Len(s) /\ DOMAIN t = 1 .. Len(s) + 1
    BY <1>1
  <1>3. Cardinality(S \cup {n}) = Cardinality(S) + 1
    <2>1. n \notin S
      BY DEF Numbers
    <2> QED BY <2>1, CountInRange, FS_AddElement
  <1>4. \A i \in 1 .. Len(s) : s[i] \in S
    BY <1>2 DEF Lists, Listed
  <1>5. Ascending(t)
    <2> SUFFICES ASSUME NEW i \in 1 .. Len(s) + 1, NEW j \in 1 .. Len(s) + 1, i < j
                 PROVE  t[i] < t[j]
      BY <1>2 DEF Ascending
    <2>1. i \in 1 .. Len(s)
      BY <1>1
    <2>2. CASE j = Len(s) + 1
      BY <2>1, <2>2, <1>1, <1>4
    <2>3. CASE j \in 1 .. Len(s)
      BY <2>1, <2>3, <1>1, <1>2 DEF Lists, Ascending
    <2> QED BY <2>2, <2>3, <1>1
  <1>6. Listed(t) = S \cup {n}
    <2>1. \A i \in 1 .. Len(s) + 1 : t[i] \in S \cup {n}
      BY <1>1, <1>4
    <2>2. \A m \in S : \E i \in 1 .. Len(s) : s[i] = m
      BY <1>2 DEF Lists, Listed
    <2>3. \A m \in S \cup {n} : \E i \in 1 .. Len(s) + 1 : t[i] = m
      BY <1>1, <2>2
    <2> QED BY <1>2, <2>1, <2>3 DEF Listed
  <1> QED BY <1>1, <1>3, <1>5, <1>6 DEF Lists

\* A line behind a complete list leaves the list as it is.
LEMMA LineBehind ==
  ASSUME NEW s \in Seq(Nat), NEW S, Lists(s, S), NEW n
  PROVE  SubSeq(Append(s, n), 1, Len(s)) = s
  BY SMTT(30)

LEMMA PrintLineLists ==
  ASSUME TypeOK, ListingInv, listing \in {"running", "paused"},
         NEW info \in 0 .. mailCount, PrintLine(info)
  PROVE  ListingInv'
  <1> SUFFICES ASSUME LoginIsExact PROVE ListingInv'
    BY DEF PrintLine, ListingInv, LoginIsExact
  <1>1. Lists(lines, Passed) /\ announced = Cardinality(Valid)
    BY CountAssumption DEF ListingInv, PrintLine, TypeOK, ExtraLine
  <1>2. Valid' = Valid /\ announced' = announced /\ listing' = "running"
    BY DEF PrintLine, Valid
  <1>3. lines' = Append(lines, mailInfo') /\ iterator < mailCount
    BY DEF PrintLine
  <1>4. lines \in Seq(Nat)
    BY CountAssumption DEF TypeOK
  <1>5. CASE Later # {}
    <2>1. PICK n \in Later : /\ \A m \in Later : n <= m
                             /\ mailInfo' = n /\ iterator' = n
      BY <1>5 DEF PrintLine, NextMail
    <2>2. n \in Numbers /\ n \in Valid /\ n > iterator
      BY DEF Later, Valid
    <2>3. \A m \in Passed : m < n
      BY <2>2, CountAssumption DEF Passed, Valid, Numbers, TypeOK
    <2>4. Passed' = Passed \cup {n}
      <3>1. \A m \in Valid : m <= n <=> (m <= iterator \/ m = n)
        BY <2>1, <2>2, CountAssumption DEF Later, Valid, Numbers, TypeOK
      <3> QED BY <3>1, <2>1, <2>2, <1>2 DEF Passed
    <2>5. Lists(Append(lines, n), Passed \cup {n})
      <3>1. Passed \in SUBSET Numbers
        BY DEF Passed, Valid
      <3> QED BY <3>1, <2>2, <2>3, <1>1, <1>4, OneMoreLine
    <2>6. Lists(lines', Passed')
      BY <2>1, <2>4, <2>5, <1>3
    <2> QED BY <2>6, <1>1, <1>2 DEF ListingInv
  <1>6. CASE Later = {}
    <2>1. iterator' = mailCount
      BY <1>6 DEF PrintLine, NextMail
    <2>2. Passed = Valid
      BY <1>6, CountAssumption DEF Passed, Later, Valid, Numbers, TypeOK
    <2>3. toDelete[mailCount]
      <3>1. mailCount \in Numbers /\ mailCount > iterator
        BY <1>3, CountAssumption DEF Numbers, TypeOK
      <3> QED BY <3>1, <1>6 DEF Later, Valid
    <2>4. Len(lines) = announced /\ Len(lines') = announced + 1
      BY <1>1, <1>3, <1>4, <2>2 DEF Lists
    <2>5. SubSeq(lines', 1, announced) = lines
      BY <1>1, <1>3, <1>4, <2>4, LineBehind
    <2>6. ExtraLine'
      BY <2>1, <2>2, <2>3, <2>4, <2>5, <1>1, <1>2 DEF ExtraLine, PrintLine
    <2> QED BY <2>6, <1>1, <1>2 DEF ListingInv
  <1> QED BY <1>5, <1>6

LEMMA InitListing == Init => ListingInv
  BY DEF Init, ListingInv

LEMMA NextListing ==
  TypeOK /\ Counted /\ ListingInv /\ [Next]_vars => ListingInv'
  <1> SUFFICES ASSUME TypeOK, Counted, ListingInv, [Next]_vars PROVE ListingInv'
    OBVIOUS
  <1>1. CASE InitMailArray \/ ListEnds \/ ResetToDelete \/ \E n \in Numbers : MarkMailToDelete(n)
    <2>1. listing' \notin {"running", "paused"}
      BY <1>1 DEF InitMailArray, ListEnds, ResetToDelete, MarkMailToDelete, listVars
    <2> QED BY <2>1 DEF ListingInv
  <1>2. CASE ListStarts
    <2>1. LoginIsExact' => announced' = Cardinality(Valid)
      BY <1>2, CountedAgrees DEF ListStarts, LoginIsExact, CountsAgree
    <2>2. Passed' = {} /\ Valid' = Valid /\ lines' = <<>>
      BY <1>2 DEF ListStarts, Passed, Valid, Numbers
    <2>3. Lists(<<>>, {})
      BY FS_EmptySet DEF Lists, Ascending, Listed
    <2>4. listing' = "running"
      BY <1>2 DEF ListStarts
    <2> QED BY <2>1, <2>2, <2>3, <2>4 DEF ListingInv
  <1>3. CASE ListContinues
    BY <1>3, PrintLineLists DEF ListContinues, TypeOK
  <1>4. CASE ListResumes
    BY <1>4, PrintLineLists DEF ListResumes
  <1>5. CASE ListPauses \/ UNCHANGED vars
    BY <1>5 DEF ListPauses, vars, ListingInv, LoginIsExact, Passed, Valid, ExtraLine
  <1> QED BY <1>1, <1>2, <1>3, <1>4, <1>5 DEF Next

LEMMA ListingIsComplete == TypeOK /\ ListingInv => ListIsComplete
  <1> SUFFICES ASSUME TypeOK, ListingInv, LoginIsExact, listing = "running",
                      iterator = mailCount
               PROVE  /\ Len(lines) >= announced
                      /\ Ascending(SubSeq(lines, 1, announced))
                      /\ Listed(SubSeq(lines, 1, announced)) = Valid
                      /\ Len(lines) > announced =>
                           toDelete[mailCount] /\ Len(lines) = announced + 1
    BY DEF ListIsComplete
  <1>1. announced = Cardinality(Valid) /\ announced \in Nat
    BY CountInRange DEF ListingInv, Valid
  <1>2. CASE Lists(lines, Passed)
    <2>1. Passed = Valid
      BY DEF Passed, Valid, Numbers
    <2>2. Len(lines) = announced /\ lines \in Seq(Nat)
      BY <1>1, <1>2, <2>1, CountAssumption DEF Lists, TypeOK
    <2>3. SubSeq(lines, 1, announced) = lines
      BY <2>2
    <2>4. Ascending(lines) /\ Listed(lines) = Valid
      BY <1>2, <2>1 DEF Lists
    <2>5. Ascending(SubSeq(lines, 1, announced)) /\ Listed(SubSeq(lines, 1, announced)) = Valid
      BY <2>3, <2>4, Zenon
    <2>6. Len(lines) >= announced /\ ~ Len(lines) > announced
      BY <1>1, <2>2
    <2> QED BY <2>5, <2>6
  <1>3. CASE ExtraLine
    BY <1>1, <1>3 DEF ExtraLine, Lists
  <1> QED BY <1>2, <1>3 DEF ListingInv

\* After a login whose two passes agree, a LIST prints every mail that is not marked
\* once and in order, and as many as it has announced, however the room in the
\* output buffer cuts it into calls of its handler, for a maildrop of any size.
THEOREM ListsAreComplete == Spec => []ListIsComplete
  BY InitType, InitCounted, NextInv, InitListing, NextListing, ListingIsComplete, PTL DEF Spec
=============================================================================
