---------------------------- MODULE PagingProofs ----------------------------
(***************************************************************************)
(* Theorems about Paging, for every set of keys, offsets and limits and    *)
(* every three bounds in the order of the code.                             *)
(***************************************************************************)
EXTENDS Paging, FiniteSetTheorems, SequenceTheorems, TLAPS

-----------------------------------------------------------------------------
(* The inductive invariant. *)

Present == {k \in Keys : item[k] # "absent"}

Now == {k \in Keys : Qualifies(scan.kind, item, mark, k)}

\* Where there is no listing nothing is recorded of one, and only a list is made of a
\* directory store.
KindInv ==
    /\ scan.kind = "none" => scan = NoScan /\ steady = {} /\ ever = {}
    /\ locked => scan.kind \in {"none", "list"}

\* Finitely many keys are there, and what has qualified was there.
PresentInv == IsFiniteSet(Present) /\ ever \subseteq Present

\* What the two witnesses record: steady keys qualify now, and whoever qualifies now has
\* done so at some moment.
WitnessInv == scan.kind # "none" => steady \subseteq Now /\ Now \subseteq ever

\* Range has come to every key of the list, and never twice.
OnceInv ==
    /\ Listed(scan.all) \subseteq scan.seen
    /\ \A i, j \in DOMAIN scan.all : scan.all[i].key = scan.all[j].key => i = j

\* A steady key lies before Range or is in the list, marked if the listing asks for that.
SteadyInv ==
    \A k \in steady :
        \/ k \in scan.todo
        \/ /\ k \in scan.seen
           /\ \E j \in DOMAIN scan.all :
                 /\ scan.all[j].key = k
                 /\ scan.kind \in {"search", "count"} => scan.all[j].mark

\* What is in the list has qualified at the moment it was visited; a count takes in
\* everybody and looks at the marks at the end.
EverInv ==
    \A j \in DOMAIN scan.all :
        scan.kind \in {"list", "search"} \/ scan.all[j].mark => scan.all[j].key \in ever

\* Under the RLock nothing moves.
LockedInv ==
    locked /\ scan.kind # "none" =>
        /\ \A k \in Keys : item[k] = "live" => k \in steady
        /\ \A k \in Listed(scan.all) : item[k] = "live"

IndInv ==
    /\ TypeOK
    /\ KindInv
    /\ PresentInv
    /\ WitnessInv
    /\ OnceInv
    /\ SteadyInv
    /\ EverInv
    /\ LockedInv
    /\ PanicNeedsNegativeOffset

-----------------------------------------------------------------------------
(* A step of a writer. *)

LEMMA LimitType ==
  ASSUME NEW lim \in Limits
  PROVE  NormLimit(lim) \in 1 .. MaxLimit
PROOF BY LimitAssumption DEF NormLimit

LEMMA ScanIdle ==
  ASSUME TypeOK, KindInv
  PROVE  scan = NoScan <=> scan.kind = "none"
PROOF BY DEF KindInv, NoScan

LEMMA NoReplyType ==
  /\ NoReply \in [sent : BOOLEAN, offset : Int, limit : Int, page : Seq(Entry), count : Nat,
                  panic : BOOLEAN]
  /\ ~NoReply.panic
PROOF BY DEF NoReply

\* All that a change does: it touches one key, which stays or becomes present, and only
\* while no directory store is being listed.
LEMMA ChangeKeeps ==
  ASSUME IndInv, Change, NEW k \in Keys, NEW v \in {"live", "gone"}, NEW m \in BOOLEAN,
         item' = [item EXCEPT ![k] = v], mark' = [mark EXCEPT ![k] = m]
  PROVE  IndInv'
<1> USE DEF IndInv
<1>1. /\ locked' = locked /\ scan' = scan /\ up' = up /\ up /\ reply' = NoReply
      /\ locked => scan.kind = "none"
  BY ScanIdle DEF Change, MayChange
<1> DEFINE new == {q \in Keys : Qualifies(scan.kind, item', mark', q)}
<1>2. /\ steady' = steady \cap new
      /\ ever' = IF scan.kind = "none" THEN {} ELSE ever \cup new
      /\ Now' = new
  BY <1>1, ScanIdle DEF Change, Witness, Now
<1>3. /\ item' \in [Keys -> {"absent", "live", "gone"}] /\ mark' \in [Keys -> BOOLEAN]
      /\ Present' = Present \cup {k}
  BY DEF TypeOK, Present
<1>4. new \subseteq Keys /\ new \subseteq Present'
  BY DEF Qualifies, Present
<1> HIDE DEF new
<1>5. TypeOK'
  <2>1. steady' \subseteq ever' /\ ever' \subseteq Keys
    BY <1>2, <1>4 DEF TypeOK, KindInv
  <2> QED
    BY <1>1, <1>3, <2>1, NoReplyType DEF TypeOK
<1>6. KindInv'
  BY <1>1, <1>2 DEF KindInv
<1>7. PresentInv'
  BY <1>2, <1>3, <1>4, FS_AddElement DEF PresentInv
<1>8. WitnessInv'
  BY <1>1, <1>2 DEF WitnessInv
<1>9. OnceInv'
  BY <1>1 DEF OnceInv, Listed
<1>10. SteadyInv'
  BY <1>1, <1>2 DEF SteadyInv
<1>11. EverInv'
  <2>1. scan.kind = "none" => DOMAIN scan.all = {}
    BY DEF KindInv, NoScan
  <2> QED
    BY <1>1, <1>2, <2>1 DEF EverInv
<1>12. LockedInv'
  BY <1>1 DEF LockedInv
<1>13. PanicNeedsNegativeOffset'
  BY <1>1, NoReplyType DEF PanicNeedsNegativeOffset
<1> QED
  BY <1>5, <1>6, <1>7, <1>8, <1>9, <1>10, <1>11, <1>12, <1>13

LEMMA WriterStep ==
  ASSUME IndInv, NEW k \in Keys, Create(k) \/ Delete(k) \/ Revive(k) \/ Update(k)
  PROVE  IndInv'
<1>0. item \in [Keys -> {"absent", "live", "gone"}] /\ mark \in [Keys -> BOOLEAN]
  BY DEF IndInv, TypeOK
<1>1. CASE Create(k) \/ Delete(k) \/ Revive(k)
  <2>1. PICK v \in {"live", "gone"} : item' = [item EXCEPT ![k] = v]
    BY <1>1 DEF Create, Delete, Revive
  <2>2. mark' = [mark EXCEPT ![k] = mark[k]] /\ mark[k] \in BOOLEAN /\ Change
    BY <1>0, <1>1 DEF Create, Delete, Revive
  <2> QED
    BY <2>1, <2>2, ChangeKeeps
<1>2. CASE Update(k)
  <2>1. mark' = [mark EXCEPT ![k] = ~mark[k]] /\ (~mark[k]) \in BOOLEAN /\ Change
    BY <1>2, Zenon DEF Update
  <2>2. item' = [item EXCEPT ![k] = "live"]
    BY <1>0, <1>2 DEF Update
  <2> QED
    BY <2>1, <2>2, ChangeKeeps
<1> QED
  BY <1>1, <1>2

-----------------------------------------------------------------------------
(* A step of the listing. *)

LEMMA BeginStep ==
  ASSUME IndInv, NEW kind \in Kinds, Begin(kind), locked => kind = "list"
  PROVE  IndInv'
<1> USE DEF IndInv
<1>1. /\ locked' = locked /\ item' = item /\ mark' = mark /\ up' = up /\ up
      /\ reply' = NoReply
      /\ steady' = {k \in Keys : Qualifies(kind, item, mark, k)} /\ ever' = steady'
  BY DEF Begin
<1>2. /\ scan' = [kind |-> kind, todo |-> {k \in Keys : InMap(k)}, seen |-> {}, all |-> <<>>]
      /\ DOMAIN scan'.all = {}
  BY DEF Begin, NoScan
<1>3. \A k \in Keys : Qualifies(kind, item, mark, k) => k \in scan'.todo /\ k \in Present
  BY <1>2 DEF Qualifies, InMap, Present
<1>4. TypeOK'
  BY <1>1, <1>2, NoReplyType DEF TypeOK
<1>5. KindInv'
  BY <1>1, <1>2 DEF KindInv, Kinds
<1>6. PresentInv'
  BY <1>1, <1>3 DEF PresentInv, Present
<1>7. WitnessInv'
  BY <1>1, <1>2 DEF WitnessInv, Now
<1>8. OnceInv' /\ EverInv'
  BY <1>2 DEF OnceInv, EverInv, Listed
<1>9. SteadyInv'
  BY <1>1, <1>3 DEF SteadyInv
<1>10. LockedInv'
  BY <1>1, <1>2 DEF LockedInv, Qualifies, Listed
<1>11. PanicNeedsNegativeOffset'
  BY <1>1, NoReplyType DEF PanicNeedsNegativeOffset
<1> QED
  BY <1>4, <1>5, <1>6, <1>7, <1>8, <1>9, <1>10, <1>11

Kept(k) == item[k] = "live" /\ (scan.kind = "search" => mark[k])

\* The list grows by one entry or not at all; it does when the key is kept, with the
\* mark of this moment.
LEMMA CollectedMeans ==
  ASSUME TypeOK, NEW k \in Keys
  PROVE  /\ Collected(k) \in Seq(Entry)
         /\ Kept(k) => /\ DOMAIN Collected(k) = DOMAIN scan.all \cup {Len(scan.all) + 1}
                       /\ Len(scan.all) + 1 \notin DOMAIN scan.all
                       /\ Collected(k)[Len(scan.all) + 1].key = k
                       /\ Collected(k)[Len(scan.all) + 1].mark = mark[k]
                       /\ \A j \in DOMAIN scan.all : Collected(k)[j] = scan.all[j]
         /\ ~Kept(k) => Collected(k) = scan.all
<1> DEFINE x == [key |-> k, mark |-> mark[k]]
<1>1. x \in Entry /\ scan.all \in Seq(Entry) /\ x.key = k /\ x.mark = mark[k]
  BY DEF TypeOK, Entry
<1>2. Collected(k) = IF Kept(k) THEN Append(scan.all, x) ELSE scan.all
  BY DEF Collected, SearchKeeps, ListKeeps, Kept
<1> HIDE DEF x
<1>3. /\ Append(scan.all, x) \in Seq(Entry)
      /\ DOMAIN Append(scan.all, x) = DOMAIN scan.all \cup {Len(scan.all) + 1}
      /\ Len(scan.all) + 1 \notin DOMAIN scan.all
      /\ Append(scan.all, x)[Len(scan.all) + 1] = x
      /\ \A j \in DOMAIN scan.all : Append(scan.all, x)[j] = scan.all[j]
  BY <1>1
<1> QED
  BY <1>1, <1>2, <1>3

LEMMA VisitStep ==
  ASSUME IndInv, NEW k \in Keys, Visit(k)
  PROVE  IndInv'
<1> USE DEF IndInv
<1>1. /\ locked' = locked /\ item' = item /\ mark' = mark /\ up' = up /\ up
      /\ steady' = steady /\ ever' = ever /\ reply' = NoReply
      /\ k \notin scan.seen /\ scan.kind # "none"
  BY ScanIdle DEF Visit
<1>2. /\ scan'.kind = scan.kind /\ scan'.todo = scan.todo \ {k}
      /\ scan'.seen = scan.seen \cup {k} /\ scan'.all = Collected(k)
      /\ scan' \in [kind : Kinds \cup {"none"}, todo : SUBSET Keys, seen : SUBSET Keys,
                    all : Seq(Entry)]
  BY CollectedMeans DEF Visit, TypeOK
<1> DEFINE n == Len(scan.all) + 1
<1>3. /\ Kept(k) => /\ DOMAIN scan'.all = DOMAIN scan.all \cup {n}
                    /\ n \notin DOMAIN scan.all
                    /\ scan'.all[n].key = k /\ scan'.all[n].mark = mark[k]
                    /\ \A j \in DOMAIN scan.all : scan'.all[j] = scan.all[j]
      /\ ~Kept(k) => scan'.all = scan.all
  <2>1. TypeOK
    OBVIOUS
  <2>2. scan'.all = Collected(k)
    BY <1>2
  <2>3. /\ Kept(k) => /\ DOMAIN Collected(k) = DOMAIN scan.all \cup {n}
                      /\ n \notin DOMAIN scan.all
                      /\ Collected(k)[n].key = k /\ Collected(k)[n].mark = mark[k]
                      /\ \A j \in DOMAIN scan.all : Collected(k)[j] = scan.all[j]
        /\ ~Kept(k) => Collected(k) = scan.all
    BY <2>1, CollectedMeans
  <2> QED
    BY <2>2, <2>3, Zenon
<1> HIDE DEF n
<1>4. /\ \A j \in DOMAIN scan.all : j \in DOMAIN scan'.all /\ scan'.all[j] = scan.all[j]
      /\ \A j \in DOMAIN scan'.all : j \in DOMAIN scan.all \/ (Kept(k) /\ j = n)
  BY <1>3
<1>5. \A j \in DOMAIN scan.all : scan.all[j].key \in scan.seen /\ scan.all[j].key # k
  BY <1>1 DEF OnceInv, Listed
<1>6. Kept(k) <=> item[k] = "live" /\ (scan.kind = "search" => mark[k])
  BY DEF Kept
<1>7. k \in Now <=> item[k] = "live" /\ (scan.kind \in {"search", "count"} => mark[k])
  BY DEF Now, Qualifies
<1>8. TypeOK'
  BY <1>1, <1>2, NoReplyType DEF TypeOK
<1>9. KindInv'
  BY <1>1, <1>2 DEF KindInv
<1>10. PresentInv'
  BY <1>1 DEF PresentInv, Present
<1>11. WitnessInv'
  BY <1>1, <1>2 DEF WitnessInv, Now
<1>12. OnceInv'
  <2>1. \A j \in DOMAIN scan'.all : scan'.all[j].key \in scan.seen \cup {k}
    BY <1>3, <1>4, <1>5
  <2>2. ASSUME NEW i \in DOMAIN scan'.all, NEW j \in DOMAIN scan'.all,
               scan'.all[i].key = scan'.all[j].key
        PROVE  i = j
    BY <1>3, <1>4, <1>5, <2>2 DEF OnceInv
  <2> QED
    BY <1>2, <2>1, <2>2 DEF OnceInv, Listed
<1>13. SteadyInv'
  <2> SUFFICES ASSUME NEW q \in steady
               PROVE  \/ q \in scan'.todo
                      \/ /\ q \in scan'.seen
                         /\ \E j \in DOMAIN scan'.all :
                               /\ scan'.all[j].key = q
                               /\ scan.kind \in {"search", "count"} => scan'.all[j].mark
    BY <1>1, <1>2 DEF SteadyInv
  <2>1. CASE q = k
    <3>1. k \in Now
      BY <1>1, <2>1 DEF WitnessInv
    <3>2. Kept(k) /\ n \in DOMAIN scan'.all
      BY <1>3, <1>6, <1>7, <3>1
    <3> QED
      BY <1>2, <1>3, <1>6, <1>7, <2>1, <3>1, <3>2
  <2>2. CASE q # k
    BY <1>2, <1>4, <2>2 DEF SteadyInv
  <2> QED
    BY <2>1, <2>2
<1>14. EverInv'
  <2> SUFFICES ASSUME NEW j \in DOMAIN scan'.all,
                      scan.kind \in {"list", "search"} \/ scan'.all[j].mark
               PROVE  scan'.all[j].key \in ever
    BY <1>1, <1>2 DEF EverInv
  <2>1. CASE j \in DOMAIN scan.all
    BY <1>4, <2>1 DEF EverInv
  <2>2. CASE Kept(k) /\ j = n
    <3>1. k \in Now
      <4>1. scan.kind \in {"list", "search", "count"}
        BY <1>1 DEF TypeOK, Kinds
      <4> QED
        BY <1>3, <1>6, <1>7, <2>2, <4>1
    <3> QED
      BY <1>1, <1>3, <2>2, <3>1 DEF WitnessInv
  <2> QED
    BY <1>4, <2>1, <2>2
<1>15. LockedInv'
  BY <1>1, <1>2, <1>3, <1>4, <1>6 DEF LockedInv, Listed
<1>16. PanicNeedsNegativeOffset'
  BY <1>1, NoReplyType DEF PanicNeedsNegativeOffset
<1> QED
  BY <1>8, <1>9, <1>10, <1>11, <1>12, <1>13, <1>14, <1>15, <1>16

-----------------------------------------------------------------------------
(* The answer. *)

\* Only a negative offset is out of the bounds of a slice.
LEMMA PanicNegative ==
  ASSUME NEW s \in Seq(Entry), NEW off \in Int, NEW lim \in Nat, Panics(s, off, lim)
  PROVE  off < 0
PROOF BY DEF Panics, PageEnd

LEMMA PageType ==
  ASSUME NEW s \in Seq(Entry), NEW off \in Int, NEW lim \in Nat, ~Panics(s, off, lim)
  PROVE  /\ Page(s, off, lim) \in Seq(Entry)
         /\ Len(Page(s, off, lim)) = IF off >= Len(s) THEN 0 ELSE PageEnd(s, off, lim) - off
         /\ \A j \in 1 .. Len(Page(s, off, lim)) : Page(s, off, lim)[j] = s[off + j]
<1>1. CASE off >= Len(s)
  BY <1>1 DEF Page
<1>2. CASE off < Len(s)
  <2>1. /\ 0 <= off /\ off <= PageEnd(s, off, lim) /\ PageEnd(s, off, lim) <= Len(s)
        /\ PageEnd(s, off, lim) \in Int
    BY <1>2 DEF Panics, PageEnd
  <2>2. Page(s, off, lim) = SubSeq(s, off + 1, PageEnd(s, off, lim))
    <3>1. Len(s) \in Nat /\ ~(off >= Len(s))
      BY <1>2
    <3> QED
      BY <3>1 DEF Page
  <2> DEFINE e == PageEnd(s, off, lim)
  <2> HIDE DEF e
  <2>3. /\ SubSeq(s, off + 1, e) \in Seq(Entry) /\ Len(SubSeq(s, off + 1, e)) = e - off
        /\ \A j \in 1 .. e - off : SubSeq(s, off + 1, e)[j] = s[off + j]
    <3>1. \A i \in off + 1 .. e : s[i] \in Entry
      BY <2>1 DEF e
    <3>2. off + 1 \in Int /\ e \in Int /\ 0 <= off /\ off <= e
      BY <2>1 DEF e
    <3>3. /\ SubSeq(s, off + 1, e) \in Seq(Entry)
          /\ Len(SubSeq(s, off + 1, e)) = IF off + 1 <= e THEN e - (off + 1) + 1 ELSE 0
          /\ \A i \in 1 .. e - (off + 1) + 1 : SubSeq(s, off + 1, e)[i] = s[off + 1 + i - 1]
      BY <3>1, <3>2, SubSeqProperties
    <3> QED
      BY <3>2, <3>3
  <2> QED
    BY <1>2, <2>2, <2>3 DEF e
<1> QED
  BY <1>1, <1>2

LEMMA AnswerStep ==
  ASSUME IndInv, up, NEW off \in Int, NEW lim \in Int, NEW page \in Seq(Entry), NEW count \in Nat,
         NEW panic \in BOOLEAN, Answer(off, lim, page, count, panic), up' \in BOOLEAN,
         panic \/ ~up' => off < 0
  PROVE  IndInv'
<1> USE DEF IndInv
<1>1. /\ locked' = locked /\ item' = item /\ mark' = mark
      /\ scan' = NoScan /\ steady' = {} /\ ever' = {}
      /\ reply' = [sent |-> TRUE, offset |-> off, limit |-> lim, page |-> page,
                   count |-> count, panic |-> panic]
  BY DEF Answer
<1>2. /\ scan'.kind = "none" /\ scan'.todo = {} /\ scan'.seen = {}
      /\ scan'.all = <<>> /\ DOMAIN scan'.all = {}
      /\ scan' \in [kind : Kinds \cup {"none"}, todo : SUBSET Keys, seen : SUBSET Keys,
                    all : Seq(Entry)]
  BY <1>1 DEF NoScan
<1>3. TypeOK'
  BY <1>1, <1>2 DEF TypeOK
<1>4. KindInv' /\ PresentInv' /\ WitnessInv'
  BY <1>1, <1>2 DEF KindInv, PresentInv, WitnessInv, Present
<1>5. OnceInv' /\ SteadyInv' /\ EverInv' /\ LockedInv'
  BY <1>1, <1>2 DEF OnceInv, SteadyInv, EverInv, LockedInv, Listed
<1>6. PanicNeedsNegativeOffset'
  BY <1>1 DEF PanicNeedsNegativeOffset
<1> QED
  BY <1>3, <1>4, <1>5, <1>6

LEMMA ReplyStep ==
  ASSUME IndInv, NEW off \in Offsets, NEW lim \in Limits,
         ReplyPage(off, lim) \/ Recover(off, lim) \/ Crash(off, lim)
  PROVE  IndInv'
<1>1. /\ off \in Int /\ lim \in Int /\ NormLimit(lim) \in Nat
      /\ scan.all \in Seq(Entry) /\ up /\ up \in BOOLEAN
  <2>1. off \in Int /\ lim \in Int /\ NormLimit(lim) \in Nat
    BY LimitAssumption, LimitType
  <2>2. up
    BY DEF ReplyPage, Recover, Crash, Complete
  <2>3. scan.all \in Seq(Entry) /\ up \in BOOLEAN
    BY DEF IndInv, TypeOK
  <2> QED
    BY <2>1, <2>2, <2>3
<1>2. CASE ReplyPage(off, lim)
  <2>1. Page(scan.all, off, NormLimit(lim)) \in Seq(Entry)
    BY <1>1, <1>2, PageType DEF ReplyPage
  <2>2. Answer(off, lim, Page(scan.all, off, NormLimit(lim)), 0, FALSE) /\ up' = up
    BY <1>2 DEF ReplyPage
  <2> QED
    BY <1>1, <2>1, <2>2, AnswerStep
<1>3. CASE Recover(off, lim) \/ Crash(off, lim)
  <2>1. Answer(off, lim, <<>>, 0, TRUE) /\ up' \in BOOLEAN
    BY <1>1, <1>3 DEF Recover, Crash
  <2>2. off < 0
    BY <1>1, <1>3, PanicNegative DEF Recover, Crash
  <2>3. <<>> \in Seq(Entry)
    OBVIOUS
  <2> QED
    BY <1>1, <2>1, <2>2, <2>3, AnswerStep
<1> QED
  BY <1>2, <1>3

\* The online page is the list up to the cap.
LEMMA OnlinePageMeans ==
  ASSUME NEW s \in Seq(Entry)
  PROVE  LET e == IF OnlineCap > Len(s) THEN Len(s) ELSE OnlineCap
         IN /\ e \in Nat /\ e <= Len(s)
            /\ DOMAIN OnlinePage(s) = 1 .. e
            /\ \A j \in 1 .. e : OnlinePage(s)[j] = s[j]
<1> DEFINE e == IF OnlineCap > Len(s) THEN Len(s) ELSE OnlineCap
<1>1. OnlineCap \in Nat /\ Len(s) \in Nat /\ 0 \in Int /\ 0 + OnlineCap = OnlineCap
  BY LimitAssumption
<1>2. ~Panics(s, 0, OnlineCap)
  BY <1>1 DEF Panics, PageEnd
<1>3. e \in Nat /\ e <= Len(s)
  BY <1>1
<1>4. Len(Page(s, 0, OnlineCap)) = e
  <2>1. Len(Page(s, 0, OnlineCap)) = IF 0 >= Len(s) THEN 0 ELSE PageEnd(s, 0, OnlineCap) - 0
    BY <1>1, <1>2, PageType
  <2> QED
    BY <1>1, <2>1 DEF PageEnd
<1> HIDE DEF e
<1>5. /\ DOMAIN Page(s, 0, OnlineCap) = 1 .. e
      /\ \A j \in 1 .. e : Page(s, 0, OnlineCap)[j] = s[0 + j]
  BY <1>1, <1>2, <1>4, PageType
<1>6. \A j \in 1 .. e : Page(s, 0, OnlineCap)[j] = s[j]
  BY <1>3, <1>5
<1> QED
  BY <1>3, <1>5, <1>6 DEF OnlinePage, e

LEMMA CountStep == ASSUME IndInv, ReplyCount PROVE IndInv'
<1> DEFINE page == OnlinePage(scan.all)
<1>1. scan.all \in Seq(Entry) /\ up \in BOOLEAN /\ up /\ up' = up
  BY DEF IndInv, TypeOK, ReplyCount, Complete
<1>2. PICK e \in Nat : DOMAIN page = 1 .. e
  BY <1>1, OnlinePageMeans
<1>3. Count(page) \in Nat
  <2>1. {j \in DOMAIN page : page[j].mark} \in SUBSET (1 .. e)
    BY <1>2
  <2>2. IsFiniteSet(1 .. e)
    BY <1>2, FS_Interval
  <2>3. IsFiniteSet({j \in DOMAIN page : page[j].mark})
    BY <2>1, <2>2, FS_Subset
  <2> QED
    BY <2>3, FS_CardinalityType DEF Count
<1>4. Answer(0, OnlineCap, <<>>, Count(page), FALSE)
  BY DEF ReplyCount
<1>5. OnlineCap \in Int /\ 0 \in Int /\ <<>> \in Seq(Entry)
  BY LimitAssumption
<1> HIDE DEF page
<1> QED
  BY <1>1, <1>3, <1>4, <1>5, AnswerStep

LEMMA IndInvInit == Init => IndInv
<1> SUFFICES ASSUME Init PROVE IndInv
  OBVIOUS
<1>1. /\ scan.kind = "none" /\ scan.todo = {} /\ scan.seen = {} /\ scan.all = <<>>
      /\ DOMAIN scan.all = {} /\ scan = NoScan
      /\ scan \in [kind : Kinds \cup {"none"}, todo : SUBSET Keys, seen : SUBSET Keys,
                   all : Seq(Entry)]
  BY DEF Init, NoScan
<1>2. TypeOK
  BY <1>1, NoReplyType DEF Init, TypeOK
<1>3. Present = {}
  BY DEF Init, Present
<1>4. KindInv /\ PresentInv /\ WitnessInv
  BY <1>1, <1>3, FS_EmptySet DEF Init, KindInv, PresentInv, WitnessInv
<1>5. OnceInv /\ SteadyInv /\ EverInv /\ LockedInv
  BY <1>1 DEF Init, OnceInv, SteadyInv, EverInv, LockedInv, Listed
<1>6. PanicNeedsNegativeOffset
  BY NoReplyType DEF Init, PanicNeedsNegativeOffset
<1> QED
  BY <1>2, <1>4, <1>5, <1>6 DEF IndInv

LEMMA IndInvStep == IndInv /\ [Next]_vars => IndInv'
<1> SUFFICES ASSUME IndInv, [Next]_vars PROVE IndInv'
  OBVIOUS
<1>1. CASE UNCHANGED vars
  BY <1>1 DEF vars, IndInv, TypeOK, KindInv, PresentInv, Present, WitnessInv, Now, OnceInv,
              Listed, SteadyInv, EverInv, LockedInv, PanicNeedsNegativeOffset
<1>2. ASSUME NEW k \in Keys, Create(k) \/ Delete(k) \/ Revive(k) \/ Update(k) \/ Visit(k)
      PROVE  IndInv'
  BY <1>2, WriterStep, VisitStep
<1>3. CASE ListUsers \/ GetOnlineCount \/ ListContainers
  <2>1. PICK kind \in Kinds : Begin(kind) /\ (locked => kind = "list")
    BY <1>3 DEF ListUsers, GetOnlineCount, ListContainers, Kinds
  <2> QED
    BY <2>1, BeginStep
<1> QED
  BY <1>1, <1>2, <1>3, ReplyStep, CountStep DEF Next

LEMMA Invariance == Spec => []IndInv
PROOF BY IndInvInit, IndInvStep, PTL DEF Spec

\* Every record, listing and answer is well formed, however listings and writers interleave.
THEOREM TypeCorrect == Spec => []TypeOK
<1>1. IndInv => TypeOK
  BY DEF IndInv
<1> QED
  BY <1>1, Invariance, PTL

\* Only a negative offset makes a slice expression panic (memory_store.go:146), and only
\* such a request ends the process.
THEOREM PanicNegativeOnly == Spec => []PanicNeedsNegativeOffset
<1>1. IndInv => PanicNeedsNegativeOffset
  BY DEF IndInv
<1> QED
  BY <1>1, Invariance, PTL

-----------------------------------------------------------------------------
(* The complete list. *)

\* A list of different keys is as long as it has keys.
LEMMA ListedCount ==
  ASSUME NEW s \in Seq(Entry), \A i, j \in DOMAIN s : s[i].key = s[j].key => i = j
  PROVE  Cardinality(Listed(s)) = Len(s)
<1> DEFINE f == [i \in 1 .. Len(s) |-> s[i].key]
<1>1. Len(s) \in Nat /\ DOMAIN s = 1 .. Len(s)
  OBVIOUS
<1>2. IsFiniteSet(1 .. Len(s)) /\ Cardinality(1 .. Len(s)) = Len(s)
  BY <1>1, FS_Interval
<1>3. f \in Bijection(1 .. Len(s), Listed(s))
  BY <1>1 DEF Bijection, Injection, Surjection, IsInjective, Listed
<1>4. ExistsBijection(1 .. Len(s), Listed(s))
  BY <1>3 DEF ExistsBijection
<1> QED
  BY <1>2, <1>4, FS_Bijection

\* A listing that races with writers is bracketed by what was there all the while and
\* what was there at some moment, without repetition; under the RLock it is the content
\* of the store (memory_store.go:129, 152; directory/memory_store.go:118, 319).
THEOREM Bracketed == Spec => []ScanBracketed
<1>1. IndInv => ScanBracketed
  <2> SUFFICES ASSUME IndInv, scan.kind \in {"list", "search"}, scan.todo = {}
               PROVE  /\ steady \subseteq Listed(scan.all)
                      /\ Listed(scan.all) \subseteq ever
                      /\ Cardinality(Listed(scan.all)) = Len(scan.all)
                      /\ locked => Listed(scan.all) = {k \in Keys : item[k] = "live"}
    BY DEF ScanBracketed
  <2>1. steady \subseteq Listed(scan.all)
    BY DEF IndInv, SteadyInv, Listed
  <2>2. Listed(scan.all) \subseteq ever
    BY DEF IndInv, EverInv, Listed
  <2>3. Cardinality(Listed(scan.all)) = Len(scan.all)
    BY ListedCount DEF IndInv, OnceInv, TypeOK
  <2>4. ever \subseteq Keys
    BY DEF IndInv, TypeOK
  <2> QED
    BY <2>1, <2>2, <2>3, <2>4 DEF IndInv, LockedInv
<1> QED
  BY <1>1, Invariance, PTL

\* How many entries of a list of length len lie above the cap
LEMMA AboveCap ==
  ASSUME NEW len \in Nat, NEW cap \in Nat
  PROVE  LET e == IF cap > len THEN len ELSE cap
         IN /\ Cardinality(e + 1 .. len) = IF len > cap THEN len - cap ELSE 0
            /\ IsFiniteSet(e + 1 .. len)
<1>1. CASE cap > len
  BY <1>1, FS_Interval
<1>2. CASE ~(cap > len)
  <2>1. /\ IsFiniteSet(cap + 1 .. len)
        /\ Cardinality(cap + 1 .. len) = IF cap + 1 > len THEN 0 ELSE len - (cap + 1) + 1
    BY FS_Interval
  <2>2. (IF cap + 1 > len THEN 0 ELSE len - (cap + 1) + 1) = IF len > cap THEN len - cap ELSE 0
    BY <1>2
  <2> QED
    BY <1>2, <2>1, <2>2
<1> QED
  BY <1>1, <1>2

\* GetOnlineCount lies between those online all the while and those online at some
\* moment, short by no more than what lies beyond the cap (service/user.go:156).
THEOREM Counted == Spec => []CountBracketed
<1>1. ASSUME IndInv, scan.kind = "count", scan.todo = {}
      PROVE  LET counted == Count(OnlinePage(scan.all))
                 beyond == IF Len(scan.all) > OnlineCap THEN Len(scan.all) - OnlineCap ELSE 0
             IN Cardinality(steady) - beyond <= counted /\ counted <= Cardinality(ever)
  <2> DEFINE s == scan.all
  <2> DEFINE e == IF OnlineCap > Len(s) THEN Len(s) ELSE OnlineCap
  <2> DEFINE beyond == IF Len(s) > OnlineCap THEN Len(s) - OnlineCap ELSE 0
  <2> DEFINE counted == {j \in 1 .. e : s[j].mark}
  <2> DEFINE marked == {j \in 1 .. Len(s) : s[j].mark}
  <2>1. s \in Seq(Entry) /\ Len(s) \in Nat /\ DOMAIN s = 1 .. Len(s) /\ OnlineCap \in Nat
    BY <1>1, LimitAssumption DEF IndInv, TypeOK
  <2>2. /\ e \in Nat /\ e <= Len(s) /\ DOMAIN OnlinePage(s) = 1 .. e
        /\ \A j \in 1 .. e : OnlinePage(s)[j] = s[j]
    BY <2>1, OnlinePageMeans
  <2>3. Count(OnlinePage(s)) = Cardinality(counted)
    <3>1. {j \in DOMAIN OnlinePage(s) : OnlinePage(s)[j].mark} = counted
      BY <2>2
    <3> QED
      BY <3>1 DEF Count
  <2>4. Cardinality(e + 1 .. Len(s)) = beyond /\ IsFiniteSet(e + 1 .. Len(s))
    BY <2>1, AboveCap
  <2>5. beyond \in Nat
    BY <2>1
  <2> HIDE DEF s, e, beyond
  <2>6. /\ IsFiniteSet(counted) /\ IsFiniteSet(marked)
        /\ Cardinality(counted) \in Nat /\ Cardinality(marked) \in Nat
    <3>1. counted \in SUBSET (1 .. e) /\ marked \in SUBSET (1 .. Len(s))
      OBVIOUS
    <3>2. IsFiniteSet(1 .. e) /\ IsFiniteSet(1 .. Len(s))
      BY <2>1, <2>2, FS_Interval
    <3>3. IsFiniteSet(counted) /\ IsFiniteSet(marked)
      BY <3>1, <3>2, FS_Subset
    <3> QED
      BY <3>3, FS_CardinalityType
  <2>7. Cardinality(counted) <= Cardinality(ever)
    <3> DEFINE f == [j \in counted |-> s[j].key]
    <3>1. \A j \in counted : j \in DOMAIN s /\ s[j].key \in ever
      BY <1>1, <2>1, <2>2 DEF IndInv, EverInv, s
    <3>2. \A i, j \in counted : s[i].key = s[j].key => i = j
      BY <1>1, <3>1 DEF IndInv, OnceInv, s
    <3>3. f \in Injection(counted, ever)
      BY <3>1, <3>2 DEF Injection, IsInjective
    <3>4. IsFiniteSet(ever)
      <4>1. ever \in SUBSET Present /\ IsFiniteSet(Present)
        BY <1>1 DEF IndInv, PresentInv
      <4> QED
        BY <4>1, FS_Subset
    <3> QED
      BY <3>3, <3>4, FS_Injection
  <2>8. Cardinality(steady) \in Nat /\ Cardinality(steady) <= Cardinality(marked)
    <3> DEFINE T == {s[j].key : j \in marked}
    <3> DEFINE f == [j \in marked |-> s[j].key]
    <3>1. f \in Surjection(marked, T)
      BY DEF Surjection
    <3>2. IsFiniteSet(T) /\ Cardinality(T) <= Cardinality(marked)
      BY <2>6, <3>1, FS_Surjection
    <3>3. steady \in SUBSET T
      BY <1>1, <2>1 DEF IndInv, SteadyInv, s
    <3>4. IsFiniteSet(steady) /\ Cardinality(steady) <= Cardinality(T)
      BY <3>2, <3>3, FS_Subset
    <3>5. Cardinality(steady) \in Nat /\ Cardinality(T) \in Nat
      BY <3>2, <3>4, FS_CardinalityType
    <3> QED
      BY <2>6, <3>2, <3>4, <3>5
  <2>9. Cardinality(marked) <= Cardinality(counted) + beyond
    <3> DEFINE U == counted \cup (e + 1 .. Len(s))
    <3>1. /\ IsFiniteSet(U)
          /\ Cardinality(U) = Cardinality(counted) + beyond
                              - Cardinality(counted \cap (e + 1 .. Len(s)))
      BY <2>4, <2>6, FS_Union
    <3>2. counted \cap (e + 1 .. Len(s)) = {}
      BY <2>1, <2>2
    <3>3. Cardinality(U) = Cardinality(counted) + beyond
      <4>1. Cardinality(counted \cap (e + 1 .. Len(s))) = 0
        BY <3>2, FS_EmptySet
      <4> HIDE DEF U, counted
      <4> QED
        BY <2>5, <2>6, <3>1, <4>1
    <3>4. marked \in SUBSET U
      BY <2>1, <2>2
    <3>5. Cardinality(marked) <= Cardinality(U)
      BY <3>1, <3>4, FS_Subset
    <3> QED
      BY <3>3, <3>5
  <2>10. Cardinality(steady) - beyond <= Cardinality(counted)
    BY <2>5, <2>6, <2>8, <2>9
  <2> QED
    BY <2>3, <2>7, <2>10 DEF s, beyond
<1>2. IndInv => CountBracketed
  BY <1>1 DEF CountBracketed
<1> QED
  BY <1>2, Invariance, PTL

-----------------------------------------------------------------------------
(* The pages of one list.  FlattenSeq is recursive; any function that       *)
(* satisfies its equation is the one it computes.                            *)

\* Every non-empty set of naturals has a least element.
LEMMA Least ==
  ASSUME NEW T, T \subseteq Nat, T # {}
  PROVE  \E x \in T : \A y \in T : x <= y
<1> DEFINE R == OpToRel(<, Nat)
<1>1. IsWellFoundedOn(R, Nat)
  BY NatLessThanWellFounded
<1>2. \A x, y \in Nat : <<y, x>> \in R <=> y < x
  BY DEF OpToRel
<1> HIDE DEF R
<1>3. PICK x \in T : \A y \in T : ~(<<y, x>> \in R)
  BY <1>1, WFMin
<1>4. ASSUME NEW y \in T PROVE x <= y
  <2>1. x \in Nat /\ y \in Nat
    OBVIOUS
  <2>2. ~(y < x)
    BY <1>2, <1>3, <2>1
  <2> QED
    BY <2>1, <2>2
<1> QED
  BY <1>4

LEMMA FlattenIs ==
  ASSUME NEW S, NEW seqs \in Seq(S), Len(seqs) # 0, NEW f,
         f = [i \in 1 .. Len(seqs) |-> IF i = 1 THEN seqs[i] ELSE f[i - 1] \o seqs[i]]
  PROVE  FlattenSeq(seqs) = f[Len(seqs)]
<1> DEFINE n == Len(seqs)
<1> DEFINE g == CHOOSE h : h = [i \in 1 .. n |-> IF i = 1 THEN seqs[i] ELSE h[i - 1] \o seqs[i]]
<1>1. n \in Nat \ {0}
  OBVIOUS
<1>2. FlattenSeq(seqs) = g[n]
  BY DEF FlattenSeq
<1>3. g = [i \in 1 .. n |-> IF i = 1 THEN seqs[i] ELSE g[i - 1] \o seqs[i]]
  OBVIOUS
<1> HIDE DEF g, n
<1>4. f = [i \in 1 .. n |-> IF i = 1 THEN seqs[i] ELSE f[i - 1] \o seqs[i]]
  BY DEF n
<1> DEFINE T == {i \in 1 .. n : g[i] # f[i]}
<1>5. ASSUME T # {} PROVE FALSE
  <2>1. PICK x \in T : \A y \in T : x <= y
    <3>1. T \subseteq 1 .. n
      OBVIOUS
    <3> HIDE DEF T
    <3>2. T \subseteq Nat
      BY <1>1, <3>1
    <3> QED
      BY <1>5, <3>2, Least
  <2>2. x \in 1 .. n /\ g[x] # f[x]
    OBVIOUS
  <2>3. x # 1
    BY <1>3, <1>4, <2>2
  <2>4. x - 1 \in 1 .. n /\ ~(x <= x - 1)
    BY <1>1, <2>2, <2>3
  <2>5. g[x - 1] = f[x - 1]
    BY <2>1, <2>4
  <2>6. g[x] = g[x - 1] \o seqs[x] /\ f[x] = f[x - 1] \o seqs[x]
    BY <1>3, <1>4, <2>2, <2>3
  <2> QED
    BY <2>2, <2>5, <2>6
<1>6. n \in 1 .. n
  BY <1>1
<1> QED
  BY <1>2, <1>5, <1>6 DEF n

\* The first m entries of a list, or all of it
Prefix(s, m) == SubSeq(s, 1, IF m > Len(s) THEN Len(s) ELSE m)

LEMMA PastEnd ==
  ASSUME NEW off \in Nat, NEW step \in Nat \ {0}, NEW len \in Nat, off >= len
  PROVE  /\ (IF off > len THEN len ELSE off) = len
         /\ (IF off + step > len THEN len ELSE off + step) = len
OBVIOUS

\* A page joins the entries before it to those up to the next page.
LEMMA NextPage ==
  ASSUME NEW s \in Seq(Entry), NEW off \in Nat, NEW step \in Nat \ {0}
  PROVE  Prefix(s, off) \o Page(s, off, step) = Prefix(s, off + step)
<1>1. Len(s) \in Nat /\ SubSeq(s, 1, Len(s)) = s
  BY SubSeqFull
<1>2. CASE off >= Len(s)
  <2>1. Page(s, off, step) = <<>> /\ Prefix(s, off) = s /\ Prefix(s, off + step) = s
    <3>1. Page(s, off, step) = <<>>
      BY <1>2 DEF Page
    <3>2. Prefix(s, off) = SubSeq(s, 1, Len(s)) /\ Prefix(s, off + step) = SubSeq(s, 1, Len(s))
      <4>1. /\ (IF off > Len(s) THEN Len(s) ELSE off) = Len(s)
            /\ (IF off + step > Len(s) THEN Len(s) ELSE off + step) = Len(s)
        BY <1>1, <1>2, PastEnd
      <4> QED
        BY <4>1 DEF Prefix
    <3> QED
      BY <1>1, <3>1, <3>2
  <2> QED
    BY <2>1, ConcatEmptySeq
<1>3. CASE off < Len(s)
  <2> DEFINE e == PageEnd(s, off, step)
  <2>1. e \in off .. Len(s) /\ e = IF off + step > Len(s) THEN Len(s) ELSE off + step
    BY <1>1, <1>3 DEF PageEnd
  <2>2. Page(s, off, step) = SubSeq(s, off + 1, e) /\ Prefix(s, off) = SubSeq(s, 1, off)
    <3>1. ~(off >= Len(s)) /\ ~(off > Len(s))
      BY <1>1, <1>3
    <3> QED
      BY <3>1 DEF Page, Prefix
  <2>3. Prefix(s, off + step) = SubSeq(s, 1, e)
    BY <2>1 DEF Prefix
  <2> HIDE DEF e
  <2>4. 1 \in 1 .. Len(s) + 1 /\ off \in 1 - 1 .. Len(s)
    BY <1>1, <1>3
  <2>5. SubSeq(s, 1, off) \o SubSeq(s, off + 1, e) = SubSeq(s, 1, e)
    BY <2>1, <2>4, ConcatAdjacentSubSeq
  <2> QED
    BY <2>2, <2>3, <2>5
<1> QED
  BY <1>1, <1>2, <1>3

LEMMA Multiples ==
  ASSUME NEW j \in Nat \ {0}, NEW step \in Nat \ {0}
  PROVE  /\ (j - 1) * step \in Nat /\ j * step \in Nat
         /\ j * step = (j - 1) * step + step
         /\ j <= j * step
<1>1. (j - 1) * step \in Nat /\ j * step = (j - 1) * step + step
  OBVIOUS
<1>2. (j - 1) * (step - 1) \in Nat /\ j * step = (j - 1) * (step - 1) + j + step - 1
  OBVIOUS
<1> QED
  BY <1>1, <1>2

\* The page a client gets when it has added the limit to the offset j - 1 times
NthPage(s, step, j) == Page(s, (j - 1) * step, step)

LEMMA NthPageType ==
  ASSUME NEW s \in Seq(Entry), NEW step \in Nat \ {0}, NEW j \in Nat \ {0}
  PROVE  /\ NthPage(s, step, j) \in Seq(Entry)
         /\ NthPage(s, step, j) = <<>> <=> (j - 1) * step >= Len(s)
         /\ Len(NthPage(s, step, j)) <= step
<1> DEFINE off == (j - 1) * step
<1> DEFINE page == Page(s, off, step)
<1>1. off \in Nat /\ Len(s) \in Nat
  BY Multiples
<1> HIDE DEF off
<1>2. ~Panics(s, off, step) /\ off \in Int /\ step \in Nat
  BY <1>1 DEF Panics, PageEnd
<1>3. page \in Seq(Entry) /\ Len(page) = IF off >= Len(s) THEN 0 ELSE PageEnd(s, off, step) - off
  BY <1>2, PageType
<1>4. /\ off >= Len(s) => Len(page) = 0
      /\ ~(off >= Len(s)) => Len(page) \in 1 .. step
  BY <1>1, <1>3 DEF PageEnd
<1> HIDE DEF page
<1>5. Len(page) = 0 <=> page = <<>>
  BY <1>3
<1>6. (page = <<>> <=> off >= Len(s)) /\ Len(page) <= step
  BY <1>1, <1>4, <1>5
<1> QED
  BY <1>3, <1>6 DEF NthPage, page, off

\* The pages put the list together again.
LEMMA PagesFlatten ==
  ASSUME NEW s \in Seq(Entry), NEW step \in Nat \ {0}
  PROVE  FlattenSeq([j \in 1 .. Len(s) |-> NthPage(s, step, j)]) = s
<1> DEFINE n == Len(s)
<1> DEFINE pages == [j \in 1 .. n |-> NthPage(s, step, j)]
<1>1. n \in Nat
  OBVIOUS
<1>2. pages \in Seq(Seq(Entry)) /\ Len(pages) = n
  <2>1. \A j \in 1 .. n : NthPage(s, step, j) \in Seq(Entry)
    BY NthPageType
  <2> HIDE DEF n
  <2> QED
    BY <1>1, <2>1
<1>3. CASE n = 0
  <2>1. s = <<>> /\ pages = <<>>
    BY <1>2, <1>3
  <2>2. FlattenSeq(<<>>) = <<>>
    BY DEF FlattenSeq
  <2> QED
    BY <2>1, <2>2
<1>4. CASE n # 0
  <2> DEFINE f == [i \in 1 .. n |-> Prefix(s, i * step)]
  <2>1. ASSUME NEW i \in 1 .. n
        PROVE  f[i] = IF i = 1 THEN pages[i] ELSE f[i - 1] \o pages[i]
    <3>1. i \in Nat \ {0} /\ f[i] = Prefix(s, i * step) /\ pages[i] = NthPage(s, step, i)
      OBVIOUS
    <3>2. Prefix(s, (i - 1) * step) \o NthPage(s, step, i) = Prefix(s, i * step)
      <4> DEFINE off == (i - 1) * step
      <4>1. off \in Nat /\ i * step = off + step
        BY <3>1, Multiples
      <4> HIDE DEF off
      <4>2. Prefix(s, off) \o Page(s, off, step) = Prefix(s, off + step)
        BY <4>1, NextPage
      <4> QED
        BY <4>1, <4>2 DEF NthPage, off
    <3>3. CASE i = 1
      <4>1. (i - 1) * step = 0
        BY <3>3
      <4>2. Prefix(s, 0) = <<>>
        <5>1. ~(0 > Len(s)) /\ 0 < 1
          BY <1>1
        <5>2. SubSeq(s, 1, 0) = <<>>
          BY SubSeqEmpty
        <5> QED
          BY <5>1, <5>2 DEF Prefix
      <4>3. <<>> \o NthPage(s, step, i) = NthPage(s, step, i)
        BY <3>1, NthPageType, ConcatEmptySeq
      <4> QED
        BY <3>1, <3>2, <3>3, <4>1, <4>2, <4>3
    <3>4. CASE i # 1
      <4>1. i - 1 \in 1 .. n
        BY <1>1, <3>4
      <4>2. f[i - 1] = Prefix(s, (i - 1) * step)
        BY <4>1
      <4> QED
        BY <3>1, <3>2, <3>4, <4>2
    <3> QED
      BY <3>3, <3>4
  <2>2. f = [i \in 1 .. n |-> IF i = 1 THEN pages[i] ELSE f[i - 1] \o pages[i]]
    <3>1. f = [i \in 1 .. n |-> f[i]]
      OBVIOUS
    <3> HIDE DEF f, pages
    <3> QED
      BY <2>1, <3>1
  <2>3. f[n] = s
    <3>1. n \in 1 .. n /\ n <= n * step /\ n * step \in Nat
      BY <1>1, <1>4, Multiples
    <3>2. (IF n * step > Len(s) THEN Len(s) ELSE n * step) = Len(s)
      BY <1>1, <3>1
    <3>3. Prefix(s, n * step) = SubSeq(s, 1, Len(s))
      BY <3>2 DEF Prefix
    <3> QED
      BY <3>1, <3>3, SubSeqFull
  <2> HIDE DEF f, pages, n
  <2> QED
    BY <1>2, <1>4, <2>2, <2>3, FlattenIs DEF pages, n
<1> QED
  BY <1>3, <1>4

\* The pages of one list that a client gets with a limit in range put the list together
\* again, only those past the end are empty, and no limit makes a page longer than the
\* maximum (memory_store.go:138-146).
THEOREM Partition == Spec => []PagesPartition
<1>1. ASSUME IndInv, NEW lim \in Limits \cap (1 .. MaxLimit)
      PROVE  LET pages == PagesOf(scan.all, lim)
             IN /\ FlattenSeq(pages) = scan.all
                /\ \A j \in DOMAIN pages : pages[j] = <<>> <=> (j - 1) * lim >= Len(scan.all)
  <2> DEFINE s == scan.all
  <2> DEFINE pages == [j \in 1 .. Len(s) |-> NthPage(s, lim, j)]
  <2>1. /\ s \in Seq(Entry) /\ Len(s) \in Nat
        /\ lim \in Nat \ {0} /\ NormLimit(lim) = lim
    BY <1>1, LimitAssumption DEF IndInv, TypeOK, NormLimit
  <2> HIDE DEF s
  <2>2. FlattenSeq(pages) = s
    BY <2>1, PagesFlatten
  <2>3. ASSUME NEW j \in 1 .. Len(s)
        PROVE  pages[j] = <<>> <=> (j - 1) * lim >= Len(s)
    <3>1. j \in Nat \ {0} /\ pages[j] = NthPage(s, lim, j)
      BY <2>1
    <3> QED
      BY <2>1, <3>1, NthPageType
  <2>4. pages = PagesOf(s, lim)
    BY <2>1 DEF NthPage, PagesOf
  <2>5. DOMAIN pages = 1 .. Len(s)
    OBVIOUS
  <2> HIDE DEF pages
  <2>6. /\ FlattenSeq(pages) = s
        /\ \A j \in DOMAIN pages : pages[j] = <<>> <=> (j - 1) * lim >= Len(s)
    BY <2>2, <2>3, <2>5
  <2> QED
    BY <2>4, <2>6, Zenon DEF s
<1>2. ASSUME IndInv, NEW lim \in Limits, NEW j \in 1 .. Len(scan.all)
      PROVE  Len(Page(scan.all, j - 1, NormLimit(lim))) <= MaxLimit
  <2> DEFINE s == scan.all
  <2> DEFINE step == NormLimit(lim)
  <2>1. /\ s \in Seq(Entry) /\ Len(s) \in Nat
        /\ step \in Nat \ {0} /\ step <= MaxLimit /\ MaxLimit \in Nat
    BY <1>2, LimitType, LimitAssumption DEF IndInv, TypeOK
  <2> HIDE DEF s, step
  <2>2. j \in Nat \ {0} /\ j <= Len(s)
    BY <1>2, <2>1 DEF s
  <2>3. PICK e \in Nat : e = PageEnd(s, j - 1, step) /\ e <= Len(s) /\ j <= e
                         /\ e - (j - 1) <= step
    BY <2>1, <2>2 DEF PageEnd
  <2>4. Page(s, j - 1, step) = SubSeq(s, j, e)
    BY <2>1, <2>2, <2>3 DEF Page
  <2>5. Len(SubSeq(s, j, e)) = e - j + 1
    BY <2>1, <2>2, <2>3, SubSeqProperties
  <2> QED
    BY <2>1, <2>2, <2>3, <2>4, <2>5 DEF s, step
<1>3. IndInv => PagesPartition
  BY <1>1, <1>2 DEF PagesPartition
<1> QED
  BY <1>3, Invariance, PTL
=============================================================================
