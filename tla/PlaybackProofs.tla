---------------------------- MODULE PlaybackProofs ----------------------------
(***************************************************************************)
(* The playback history for any number of collections, clips and calls,    *)
(* any lists of candidates and any number of days, failing saves and       *)
(* restarts: nothing is repeated in a round, nothing is passed over, what  *)
(* callers were told stays true, and every clip that stays ready reaches   *)
(* the history whatever else the pages of the listing miss.                *)
(***************************************************************************)
EXTENDS Playback, SequenceTheorems, FiniteSetTheorems,
        FunctionTheorems, WellFoundedInduction, TLAPS

-----------------------------------------------------------------------------
(* Resets.                                                                 *)

Wiped(h, ids) == [c \in Collections |-> IF c \in ids THEN Reset(h[c]) ELSE h[c]]

LEMMA ReconciledIsWiped ==
  ASSUME NEW h
  PROVE  Reconciled(h) = Wiped(h, Due(h))
BY DEF Reconciled, Wiped

\* The variables that resets read.
Timed == day \in Nat /\ heard \in [Collections -> Nat]

LEMMA ResetType ==
  ASSUME Timed, NEW r \in Records
  PROVE  /\ Reset(r) \in Records
         /\ Reset(r).known = r.known /\ Reset(r).period = day /\ Reset(r).round = r.round + 1
         /\ Reset(r).played = {} /\ Reset(r).pending = TRUE
<1>1. r.round + 1 \in Nat \ {0}
  BY DEF Records
<1>2. Reset(r) \in Records
  BY <1>1 DEF Reset, Records, Timed
<1> QED BY <1>2 DEF Reset, Records

LEMMA WipedTypes ==
  ASSUME Timed, NEW h \in [Collections -> Records], NEW book \in [Collections -> Pages], NEW ids
  PROVE  /\ Wiped(h, ids) \in [Collections -> Records]
         /\ Cleared(book, ids) \in [Collections -> Pages]
         /\ \A c \in Collections : Cleared(book, ids)[c] =
              IF c \in ids THEN [shown |-> {}, lost |-> {}, blurred |-> book[c].blurred]
              ELSE book[c]
<1>1. Wiped(h, ids) \in [Collections -> Records]
  BY ResetType DEF Wiped
<1>2. \A c \in Collections : Cleared(book, ids)[c] =
        IF c \in ids THEN [shown |-> {}, lost |-> {}, blurred |-> book[c].blurred]
        ELSE book[c]
  BY DEF Cleared, NoPage
<1>3. Cleared(book, ids) \in [Collections -> Pages]
  BY <1>2 DEF Cleared, Pages
<1> QED BY <1>1, <1>2, <1>3

\* A reset of records that exist keeps what records and pages have to do with each
\* other, and a reset mark makes up for what was not settled.
LEMMA ResetKeeps ==
  ASSUME Timed, NEW h \in [Collections -> Records], NEW book \in [Collections -> Pages],
         NEW ids, NEW c \in Collections, c \in ids => h[c].known, Agree(h, book, c)
  PROVE  /\ Agree(Wiped(h, ids), Cleared(book, ids), c)
         /\ c \in ids \/ Settled(h, book, c) => Settled(Wiped(h, ids), Cleared(book, ids), c)
<1> DEFINE h2 == Wiped(h, ids)
           b2 == Cleared(book, ids)
<1>0. heard[c] \in Nat /\ h[c] \in Records
  BY DEF Timed
<1>1. /\ h2[c] = IF c \in ids THEN Reset(h[c]) ELSE h[c]
      /\ b2[c] = IF c \in ids THEN [shown |-> {}, lost |-> {}, blurred |-> book[c].blurred]
                 ELSE book[c]
  BY WipedTypes DEF Wiped
<1>2. CASE c \in ids
  <2>1. /\ h2[c].known = h[c].known /\ h2[c].period = day /\ h2[c].round = h[c].round + 1
        /\ h2[c].played = {} /\ h2[c].pending = TRUE
        /\ b2[c] = [shown |-> {}, lost |-> {}, blurred |-> book[c].blurred]
    BY <1>0, <1>2, <1>1, ResetType
  <2>2. h2[c].round > heard[c] /\ heard[c] <= h2[c].round
    BY <1>0, <2>1 DEF Agree, Records
  <2>3. Agree(h2, b2, c)
    BY <1>2, <2>1, <2>2 DEF Agree, Timed
  <2>4. Settled(h2, b2, c)
    BY <2>1, <2>2 DEF Settled
  <2> QED BY <2>3, <2>4
<1>3. CASE c \notin ids
  <2>1. h2[c] = h[c] /\ b2[c] = book[c]
    BY <1>3, <1>1
  <2>2. Agree(h2, b2, c)
    BY <2>1 DEF Agree
  <2>3. Settled(h, book, c) => Settled(h2, b2, c)
    BY <2>1 DEF Settled
  <2> QED BY <1>3, <2>2, <2>3
<1> QED BY <1>2, <1>3

\* After the records that are due have been reset, each is of today or not there.
LEMMA NothingDue ==
  ASSUME Timed, NEW h \in [Collections -> Records], NEW c \in Collections, h[c].known, Daily
  PROVE  Reconciled(h)[c].period = day
<1>1. CASE c \in Due(h)
  <2>1. Reset(h[c]).period = day
    BY ResetType
  <2> QED BY <1>1, <2>1 DEF Reconciled
<1>2. CASE c \notin Due(h)
  BY <1>2 DEF Reconciled, Due
<1> QED BY <1>1, <1>2

-----------------------------------------------------------------------------
(* Claims.                                                                 *)

LEMMA InitHolds == Init => HistoryInv
<1> SUFFICES ASSUME Init PROVE HistoryInv
  OBVIOUS
<1> USE HistoryAssumption
<1>1. NoRecord \in Records /\ NoPage \in Pages /\ Idle \in CallStates
  BY DEF NoRecord, Records, NoPage, Pages, Idle, CallStates, Ops
<1>2. TypeOK
  BY <1>1 DEF Init, TypeOK, Idle
<1>3. OneClaim /\ \A k \in Calls, c \in Collections : ~Claims(k, c)
  BY DEF Init, OneClaim, Claims, Idle
<1>4. ASSUME NEW c \in Collections
      PROVE  /\ Agree(history, ledger, c) /\ Agree(stored, kept, c)
             /\ Settled(stored, kept, c) /\ Settled(history, ledger, c)
  <2>1. /\ history[c] = NoRecord /\ stored[c] = NoRecord /\ ledger[c] = NoPage /\ kept[c] = NoPage
        /\ heard[c] = 1 /\ day = 1
    BY DEF Init
  <2>2. Agree(history, ledger, c) /\ Agree(stored, kept, c)
    BY <2>1 DEF Agree, NoRecord, NoPage
  <2>3. Settled(stored, kept, c) /\ Settled(history, ledger, c)
    BY <2>1 DEF Settled, NoRecord, NoPage
  <2> QED BY <2>2, <2>3
<1> QED BY <1>2, <1>3, <1>4 DEF HistoryInv

\* Only the holder of the lock has a claim in hand.
LEMMA OnlyHolder ==
  ASSUME HistoryInv, NEW k \in Calls, lock # k
  PROVE  call[k].clip = NoClip /\ call[k].pc # "saving"
BY DEF HistoryInv, OneClaim, TypeOK

\* With the lock free, memory is settled.
LEMMA FreeIsSettled ==
  ASSUME HistoryInv, lock = Free, NEW c \in Collections
  PROVE  Settled(history, ledger, c)
BY OnlyHolder, HistoryAssumption DEF HistoryInv, Claims

\* A step of one call that neither holds nor takes the lock, and changes nothing else.
LEMMA CallKeeps ==
  ASSUME HistoryInv, NEW k \in Calls, lock # k, NEW to \in CallStates,
         to.pc # "saving", to.clip = NoClip,
         to.pc = "wait" /\ to.op = "select" => \A c, d \in to.ids : c = d,
         call' = [call EXCEPT ![k] = to],
         UNCHANGED <<history, stored, lock, day, faults, ledger, kept, heard>>
  PROVE  HistoryInv'
<1>1. TypeOK /\ OneClaim /\ call \in [Calls -> CallStates]
  BY DEF HistoryInv, TypeOK
<1>2. TypeOK'
  BY <1>1 DEF TypeOK
<1>3. OneClaim'
  BY <1>1 DEF OneClaim
<1>4. \A j \in Calls, c \in Collections : Claims(j, c)' <=> Claims(j, c)
  BY <1>1, OnlyHolder DEF Claims
<1>5. ASSUME NEW c \in Collections
      PROVE  /\ Agree(history, ledger, c)' <=> Agree(history, ledger, c)
             /\ Agree(stored, kept, c)' <=> Agree(stored, kept, c)
             /\ Settled(history, ledger, c)' <=> Settled(history, ledger, c)
             /\ Settled(stored, kept, c)' <=> Settled(stored, kept, c)
  BY DEF Agree, Settled
<1>6. \A j \in Calls, c \in Collections : Claims(j, c)' /\ InHand(j, c) => InHand(j, c)'
  BY <1>1 DEF Claims, InHand, Counts
<1> QED BY <1>2, <1>3, <1>4, <1>5, <1>6 DEF HistoryInv

\* The round of a selection is the present one, or the next one when all that is
\* eligible has been played.
LEMMA TurnFacts ==
  ASSUME NEW r \in Records, NEW eligible \in SUBSET ClipIds
  PROVE  LET turn == Turn(r, eligible)
         IN  \/ /\ turn.rolled = TRUE /\ turn.round = r.round + 1
                /\ turn.played = {} /\ turn.rest = eligible
                /\ eligible # {} /\ eligible \subseteq r.played
             \/ /\ turn.rolled = FALSE /\ turn.round = r.round
                /\ turn.played = r.played \cap eligible /\ turn.rest = eligible \ r.played
<1> DEFINE turn == Turn(r, eligible)
           rest == eligible \ (r.played \cap eligible)
<1>1. rest = eligible \ r.played
  OBVIOUS
<1>2. CASE eligible # {} /\ rest = {}
  BY <1>1, <1>2 DEF Turn
<1>3. CASE ~(eligible # {} /\ rest = {})
  BY <1>1, <1>3 DEF Turn
<1> QED BY <1>2, <1>3

LEMMA MembersType ==
  ASSUME NEW s \in Seq(ClipIds)
  PROVE  Members(s) \in SUBSET ClipIds
<1>1. \A i \in DOMAIN s : s[i] \in ClipIds
  BY LenProperties, ElementOfSeq
<1> QED BY <1>1 DEF Members

LEMMA ChoicesInRest ==
  ASSUME NEW offered, NEW rest, NEW ordered, NEW clip \in Choices(offered, rest, ordered)
  PROVE  clip \in rest
BY DEF Choices

\* The parts of the invariant after a step in which nothing is in hand.
LEMMA NothingInHand ==
  ASSUME TypeOK', OneClaim', \A j \in Calls : call'[j].clip = NoClip,
         \A c \in Collections : /\ Agree(history, ledger, c)' /\ Settled(history, ledger, c)'
                                /\ Agree(stored, kept, c)' /\ Settled(stored, kept, c)'
  PROVE  HistoryInv'
BY DEF HistoryInv, Claims

\* What the invariant says of file and memory in a step that keeps day and answers.
LEMMA FileFrame ==
  ASSUME HistoryInv, UNCHANGED <<stored, kept, day, heard>>, NEW c \in Collections
  PROVE  Agree(stored, kept, c)' /\ Settled(stored, kept, c)'
BY DEF HistoryInv, Agree, Settled

LEMMA InvTimed ==
  ASSUME HistoryInv
  PROVE  /\ Timed
         /\ history \in [Collections -> Records] /\ stored \in [Collections -> Records]
         /\ ledger \in [Collections -> Pages] /\ kept \in [Collections -> Pages]
BY DEF HistoryInv, TypeOK, Timed, Pages

LEMMA ClaimKeeps ==
  ASSUME HistoryInv, NEW k \in Calls, Claim(k)
  PROVE  HistoryInv'
<1> DEFINE eligible == Members(call[k].offered)
           fresh    == Reconciled(history)
           due      == Cleared(ledger, Due(history))
<1>1. /\ TypeOK /\ lock = Free /\ call[k] \in CallStates
      /\ call[k].pc = "wait" /\ call[k].op = "select" /\ call[k].clip = NoClip
      /\ call[k].ids \in SUBSET Collections
  BY OnlyHolder, HistoryAssumption DEF Claim, Granted, HistoryInv, TypeOK, CallStates
<1>2. eligible \in SUBSET ClipIds
  <2>1. call[k].offered \in Seq(ClipIds)
    <3>1. call[k].offered \in Offers \cup {<<>>}
      BY <1>1 DEF CallStates
    <3> QED BY <3>1, EmptySeq, HistoryAssumption
  <2> QED BY <2>1, MembersType
<1>3. PICK c \in call[k].ids :
        LET turn  == Turn(fresh[c], eligible)
            pages == Cleared(ledger, Due(history) \cup (IF turn.rolled THEN {c} ELSE {}))
        IN  /\ turn.round < MaxRound
            /\ \E clip \in Choices(call[k].offered, turn.rest, call[k].ordered) :
                 /\ history' = [fresh EXCEPT ![c] = Claimed(@, turn, clip)]
                 /\ call' = [call EXCEPT ![k].pc = "saving", ![k].clip = clip,
                               ![k].round = turn.round,
                               ![k].flag = turn.rolled \/ fresh[c].pending]
            /\ ledger' = [pages EXCEPT ![c].shown = @ \cap eligible,
                                       ![c].lost = @ \cap eligible]
  BY DEF Claim
<1> DEFINE turn  == Turn(fresh[c], eligible)
           pages == Cleared(ledger, Due(history) \cup (IF turn.rolled THEN {c} ELSE {}))
<1>4. PICK clip \in turn.rest :
        /\ history' = [fresh EXCEPT ![c] = Claimed(@, turn, clip)]
        /\ call' = [call EXCEPT ![k].pc = "saving", ![k].clip = clip, ![k].round = turn.round,
                                ![k].flag = turn.rolled \/ fresh[c].pending]
  BY <1>3, ChoicesInRest
<1>5. /\ ledger' = [pages EXCEPT ![c].shown = @ \cap eligible, ![c].lost = @ \cap eligible]
      /\ lock' = k /\ UNCHANGED <<stored, day, faults, kept, heard>>
  BY <1>3 DEF Claim
<1> HIDE DEF eligible, fresh, due, turn, pages
<1>6. /\ Timed /\ c \in Collections
      /\ history \in [Collections -> Records] /\ ledger \in [Collections -> Pages]
  BY <1>1, InvTimed
<1>7. /\ fresh \in [Collections -> Records] /\ due \in [Collections -> Pages]
      /\ \A d \in Collections : Agree(fresh, due, d) /\ Settled(fresh, due, d)
  <2>1. \A d \in Collections : d \in Due(history) => history[d].known
    BY DEF Due
  <2>2. \A d \in Collections : Agree(history, ledger, d) /\ Settled(history, ledger, d)
    BY <1>1, FreeIsSettled DEF HistoryInv
  <2> QED BY <1>6, <2>1, <2>2, ReconciledIsWiped, WipedTypes, ResetKeeps DEF fresh, due
<1>8. /\ turn.rolled \in BOOLEAN /\ turn.round \in Nat \ {0} /\ turn.played \in SUBSET ClipIds
      /\ clip \in eligible /\ clip \in ClipIds /\ clip \notin turn.played
      /\ fresh[c] \in Records
      /\ \/ /\ turn.rolled = TRUE /\ turn.round = fresh[c].round + 1
            /\ turn.played = {} /\ turn.rest = eligible
            /\ eligible # {} /\ eligible \subseteq fresh[c].played
         \/ /\ turn.rolled = FALSE /\ turn.round = fresh[c].round
            /\ turn.played = fresh[c].played \cap eligible
            /\ turn.rest = eligible \ fresh[c].played
  <2>1. fresh[c].round \in Nat \ {0} /\ fresh[c].round + 1 \in Nat \ {0}
    BY <1>6, <1>7 DEF Records
  <2>2. \/ /\ turn.rolled = TRUE /\ turn.round = fresh[c].round + 1
           /\ turn.played = {} /\ turn.rest = eligible
           /\ eligible # {} /\ eligible \subseteq fresh[c].played
        \/ /\ turn.rolled = FALSE /\ turn.round = fresh[c].round
           /\ turn.played = fresh[c].played \cap eligible
           /\ turn.rest = eligible \ fresh[c].played
    BY <1>2, <1>6, <1>7, TurnFacts DEF turn
  <2> QED BY <1>2, <1>4, <1>6, <1>7, <2>1, <2>2
<1>9. /\ history' \in [Collections -> Records]
      /\ \A d \in Collections : d # c => history'[d] = fresh[d]
      /\ history'[c] = [known |-> TRUE, period |-> day, round |-> turn.round,
                        played |-> turn.played \cup {clip}, pending |-> FALSE]
  <2>1. Claimed(fresh[c], turn, clip) \in Records
    BY <1>6, <1>8 DEF Claimed, Records, Timed
  <2> QED BY <1>4, <1>6, <1>7, <2>1 DEF Claimed
<1>10. /\ pages \in [Collections -> Pages]
       /\ \A d \in Collections : d # c => pages[d] = due[d]
       /\ pages[c].blurred = due[c].blurred
       /\ turn.rolled = TRUE => pages[c].shown = {} /\ pages[c].lost = {}
       /\ turn.rolled = FALSE => pages[c] = due[c]
  <2> DEFINE gone == Due(history) \cup (IF turn.rolled THEN {c} ELSE {})
  <2>1. /\ pages \in [Collections -> Pages]
        /\ \A d \in Collections : pages[d] =
             IF d \in gone
             THEN [shown |-> {}, lost |-> {}, blurred |-> ledger[d].blurred] ELSE ledger[d]
    <3>1. pages = Cleared(ledger, gone)
      BY DEF pages
    <3> HIDE DEF gone
    <3> QED BY <1>6, <3>1, WipedTypes
  <2>2. \A d \in Collections : due[d] =
             IF d \in Due(history)
             THEN [shown |-> {}, lost |-> {}, blurred |-> ledger[d].blurred] ELSE ledger[d]
    BY <1>6, WipedTypes DEF due
  <2>3. \A d \in Collections : d # c => pages[d] = due[d]
    BY <1>8, <2>1, <2>2
  <2>4. CASE turn.rolled = TRUE
    BY <1>6, <2>1, <2>2, <2>3, <2>4
  <2>5. CASE turn.rolled = FALSE
    BY <1>6, <2>1, <2>2, <2>3, <2>5
  <2> QED BY <1>8, <2>4, <2>5
<1>11. /\ ledger' \in [Collections -> Pages]
       /\ \A d \in Collections : d # c => ledger'[d] = due[d]
       /\ ledger'[c].shown = pages[c].shown \cap eligible
       /\ ledger'[c].lost = pages[c].lost \cap eligible
       /\ ledger'[c].blurred = due[c].blurred
  <2>1. pages[c] \in Pages /\ pages[c].shown \cap eligible \in SUBSET ClipIds
        /\ pages[c].lost \cap eligible \in SUBSET ClipIds
    BY <1>6, <1>10 DEF Pages
  <2> QED BY <1>5, <1>6, <1>10, <2>1 DEF Pages
<1>12. /\ call' \in [Calls -> CallStates]
       /\ \A j \in Calls : j # k => call'[j] = call[j]
       /\ call'[k].pc = "saving" /\ call'[k].clip = clip /\ call'[k].round = turn.round
       /\ call'[k].flag = (turn.rolled \/ fresh[c].pending)
       /\ call'[k].ids = call[k].ids
  <2> DEFINE flag == turn.rolled \/ fresh[c].pending
  <2>1. flag \in BOOLEAN
    OBVIOUS
  <2>2. call' = [call EXCEPT ![k].pc = "saving", ![k].clip = clip, ![k].round = turn.round,
                             ![k].flag = flag]
    BY <1>4
  <2> HIDE DEF flag
  <2>3. /\ call' \in [Calls -> CallStates]
        /\ \A j \in Calls : j # k => call'[j] = call[j]
        /\ call'[k].pc = "saving" /\ call'[k].clip = clip /\ call'[k].round = turn.round
        /\ call'[k].flag = flag /\ call'[k].ids = call[k].ids
    BY <1>1, <1>8, <2>1, <2>2 DEF CallStates, TypeOK
  <2> QED BY <2>3 DEF flag
<1>13. /\ Agree(fresh, due, c) /\ Settled(fresh, due, c) /\ due[c] \in Pages
       /\ heard[c] \in Nat /\ fresh[c].round \in Nat
       /\ Daily => fresh[c].period = day \/ fresh[c].played = {}
  <2>1. heard[c] \in Nat /\ fresh[c].round \in Nat /\ due[c] \in Pages
    BY <1>6, <1>7, <1>8 DEF Timed, Records
  <2>2. ASSUME Daily PROVE fresh[c].period = day \/ fresh[c].played = {}
    <3>1. CASE history[c].known
      BY <1>6, <2>2, <3>1, NothingDue DEF fresh
    <3>2. CASE ~history[c].known
      <4>1. history[c] = NoRecord /\ c \notin Due(history)
        BY <1>6, <3>2 DEF HistoryInv, Agree, Due
      <4> QED BY <1>6, <4>1 DEF fresh, Reconciled, NoRecord
    <3> QED BY <3>1, <3>2
  <2> QED BY <1>6, <1>7, <2>1, <2>2
<1>14. TypeOK'
  <2>1. \A j \in Calls : call'[j].pc = "saving" <=> lock' = j
    BY <1>1, <1>5, <1>12, HistoryAssumption DEF TypeOK
  <2> QED BY <1>1, <1>5, <1>9, <1>11, <1>12, <2>1 DEF TypeOK
<1>15. OneClaim' /\ \A d \in Collections : Claims(k, d)' <=> d = c
  <2>1. OneClaim /\ \A d \in call[k].ids : d = c
    BY <1>1 DEF HistoryInv, OneClaim
  <2>2. OneClaim'
    BY <1>12, <2>1 DEF OneClaim
  <2>3. clip # NoClip
    BY <1>8, HistoryAssumption
  <2> QED BY <1>12, <2>1, <2>2, <2>3 DEF Claims
<1>16. \A j \in Calls, d \in Collections : Claims(j, d)' => j = k /\ d = c
  BY <1>1, <1>12, <1>15, OnlyHolder, HistoryAssumption DEF Claims
<1>17. ASSUME NEW d \in Collections, d # c
       PROVE  Agree(history, ledger, d)' /\ Settled(history, ledger, d)'
  BY <1>5, <1>7, <1>9, <1>11, <1>17 DEF Agree, Settled
<1>18. ledger'[c].shown \subseteq turn.played
       /\ (Daily => history'[c].period = day) /\ history'[c].known = TRUE
       /\ turn.played \subseteq ledger'[c].shown \cup ledger'[c].lost
  <2>1. CASE turn.rolled = TRUE
    BY <1>8, <1>9, <1>10, <1>11, <2>1
  <2>2. CASE turn.rolled = FALSE
    <3>1. ledger'[c].shown = due[c].shown \cap eligible /\ ledger'[c].lost = due[c].lost \cap eligible
      BY <1>10, <1>11, <2>2
    <3>2. due[c].shown \subseteq fresh[c].played
      BY <1>13 DEF Agree
    <3>3. fresh[c].played \subseteq due[c].shown \cup due[c].lost
      BY <1>13 DEF Settled
    <3> QED BY <1>8, <1>9, <2>2, <3>1, <3>2, <3>3
  <2> QED BY <1>8, <2>1, <2>2
<1>19. Agree(history, ledger, c)'
  <2>1. heard[c] <= fresh[c].round /\ fresh[c].round <= turn.round
    BY <1>8, <1>13 DEF Agree
  <2>2. heard[c] <= turn.round
    BY <1>8, <1>13, <2>1
  <2>3. history'[c].known /\ history'[c].period <= day' /\ history'[c].round = turn.round
    <3>1. day' = day /\ day <= day
      BY <1>5, <1>6 DEF Timed
    <3>2. history'[c].period = day /\ history'[c].round = turn.round
      BY <1>9
    <3> QED BY <1>18, <3>1, <3>2
  <2>5. ledger'[c].shown \subseteq history'[c].played
    BY <1>9, <1>18
  <2>4. heard'[c] <= history'[c].round
    BY <1>5, <2>2, <2>3
  <2> QED BY <2>3, <2>4, <2>5 DEF Agree
<1>20. InHand(k, c)'
  <2>1. clip \notin ledger'[c].shown /\ clip \in history'[c].played
    BY <1>8, <1>9, <1>18
  <2>2. history'[c].played \subseteq ledger'[c].shown \cup ledger'[c].lost \cup {clip}
    BY <1>9, <1>18
  <2>3. ASSUME ~ledger'[c].blurred
        PROVE  (turn.rolled \/ fresh[c].pending) <=> turn.round > heard[c]
    <3>1. fresh[c].pending <=> fresh[c].round > heard[c]
      BY <1>11, <1>13, <2>3 DEF Settled
    <3>2. heard[c] <= fresh[c].round
      BY <1>13 DEF Agree
    <3>3. CASE turn.rolled = TRUE
      BY <1>8, <1>13, <3>2, <3>3
    <3>4. CASE turn.rolled = FALSE
      BY <1>8, <3>1, <3>4
    <3> QED BY <1>8, <3>3, <3>4
  <2>4. history'[c].round = turn.round /\ ~history'[c].pending /\ heard'[c] = heard[c]
    BY <1>5, <1>9
  <2> QED BY <1>12, <2>1, <2>2, <2>3, <2>4 DEF InHand
<1>21. \A d \in Collections : Agree(stored, kept, d)' /\ Settled(stored, kept, d)'
  BY <1>5, FileFrame
<1> QED BY <1>14, <1>15, <1>16, <1>17, <1>19, <1>20, <1>21 DEF HistoryInv

-----------------------------------------------------------------------------
(* Resets, with and without a selection.                                   *)

\* A call with the lock resets some records, and returns or starts to save.
LEMMA WipeStep ==
  ASSUME HistoryInv, NEW k \in Calls, lock = Free,
         NEW ids, \A c \in ids : c \in Collections /\ history[c].known,
         history' = Wiped(history, ids), ledger' = Cleared(ledger, ids),
         NEW to \in CallStates, to.clip = NoClip, call' = [call EXCEPT ![k] = to],
         \/ to.pc = "idle" /\ lock' = Free
         \/ to.pc = "saving" /\ lock' = k,
         UNCHANGED <<stored, day, faults, kept, heard>>
  PROVE  HistoryInv'
<1>1. Timed /\ TypeOK /\ OneClaim
  BY InvTimed DEF HistoryInv
<1>2. /\ history \in [Collections -> Records] /\ ledger \in [Collections -> Pages]
      /\ call \in [Calls -> CallStates]
  BY <1>1 DEF TypeOK
<1>3. history' \in [Collections -> Records] /\ ledger' \in [Collections -> Pages]
  BY <1>1, <1>2, WipedTypes
<1>4. call' \in [Calls -> CallStates] /\ \A j \in Calls : call'[j] = IF j = k THEN to ELSE call[j]
  BY <1>2
<1>5. \A j \in Calls : call[j].clip = NoClip /\ call[j].pc # "saving"
  BY OnlyHolder, HistoryAssumption
<1>6. TypeOK'
  <2>1. \A j \in Calls : call'[j].pc = "saving" <=> lock' = j
    BY <1>4, <1>5, HistoryAssumption
  <2> QED BY <1>1, <1>3, <1>4, <2>1 DEF TypeOK
<1>7. OneClaim' /\ \A j \in Calls : call'[j].clip = NoClip
  BY <1>1, <1>4, <1>5 DEF OneClaim
<1>8. ASSUME NEW c \in Collections
      PROVE  Agree(history, ledger, c)' /\ Settled(history, ledger, c)'
  <2>1. Agree(history, ledger, c) /\ Settled(history, ledger, c)
    BY FreeIsSettled DEF HistoryInv
  <2>2. /\ Agree(Wiped(history, ids), Cleared(ledger, ids), c)
        /\ Settled(Wiped(history, ids), Cleared(ledger, ids), c)
    BY <1>1, <1>2, <2>1, ResetKeeps
  <2> QED BY <2>2 DEF Agree, Settled
<1> QED BY <1>6, <1>7, <1>8, FileFrame, NothingInHand

LEMMA IdleType == Idle \in CallStates /\ Idle.pc = "idle" /\ Idle.clip = NoClip
BY DEF Idle, CallStates, Ops

LEMMA SelectNothingKeeps ==
  ASSUME HistoryInv, NEW k \in Calls, SelectNothing(k)
  PROVE  HistoryInv'
<1>1. /\ lock = Free /\ call \in [Calls -> CallStates] /\ call[k].clip = NoClip
      /\ call[k].pc = "wait"
  BY OnlyHolder, HistoryAssumption DEF SelectNothing, Granted, HistoryInv, TypeOK
<1>2. history' = Wiped(history, Due(history)) /\ ledger' = Cleared(ledger, Due(history))
  BY ReconciledIsWiped DEF SelectNothing
<1>3. \A c \in Due(history) : c \in Collections /\ history[c].known
  BY DEF Due
<1>4. CASE Due(history) = {}
  BY <1>1, <1>2, <1>3, <1>4, WipeStep, IdleType DEF SelectNothing, Return
<1>5. CASE Due(history) # {}
  <2> DEFINE to == [call[k] EXCEPT !.pc = "saving", !.ids = {}]
  <2>1. to \in CallStates /\ to.pc = "saving" /\ to.clip = NoClip
    BY <1>1 DEF CallStates
  <2>2. call' = [call EXCEPT ![k] = to] /\ lock' = k
    BY <1>1, <1>5 DEF SelectNothing, CallStates
  <2> HIDE DEF to
  <2> QED BY <1>1, <1>2, <1>3, <2>1, <2>2, WipeStep DEF SelectNothing
<1> QED BY <1>4, <1>5

LEMMA WipeKeeps ==
  ASSUME HistoryInv, NEW k \in Calls, Wipe(k)
  PROVE  HistoryInv'
<1> DEFINE ids == IF call[k].op = "daily" THEN Due(history)
                  ELSE {c \in call[k].ids : history[c].known}
<1>1. /\ lock = Free /\ call \in [Calls -> CallStates] /\ call[k].clip = NoClip
      /\ call[k].pc = "wait" /\ call[k] \in CallStates
  BY OnlyHolder, HistoryAssumption DEF Wipe, Granted, HistoryInv, TypeOK
<1>2. history' = Wiped(history, ids) /\ ledger' = Cleared(ledger, ids)
  BY DEF Wipe, Wiped
<1>3. \A c \in ids : c \in Collections /\ history[c].known
  <2>1. call[k].ids \in SUBSET Collections
    BY <1>1 DEF CallStates
  <2> QED BY <2>1 DEF Due
<1>4. IF ids = {} THEN Return(k) /\ UNCHANGED lock
                  ELSE lock' = k /\ call' = [call EXCEPT ![k].pc = "saving"]
  BY DEF Wipe
<1>5. UNCHANGED <<stored, day, faults, kept, heard>>
  BY DEF Wipe
<1> HIDE DEF ids
<1>6. CASE ids = {}
  BY <1>1, <1>2, <1>3, <1>4, <1>5, <1>6, WipeStep, IdleType DEF Return
<1>7. CASE ids # {}
  <2> DEFINE to == [call[k] EXCEPT !.pc = "saving"]
  <2>1. to \in CallStates /\ to.pc = "saving" /\ to.clip = NoClip
    BY <1>1 DEF CallStates
  <2>2. call' = [call EXCEPT ![k] = to] /\ lock' = k
    BY <1>1, <1>4, <1>7 DEF CallStates
  <2> HIDE DEF to
  <2> QED BY <1>1, <1>2, <1>3, <1>5, <2>1, <2>2, WipeStep
<1> QED BY <1>6, <1>7

-----------------------------------------------------------------------------
(* Requests, rehearsals and answers.                                       *)

\* A request that waits for the lock.
Waiting(to) == to \in CallStates /\ to.pc = "wait" /\ to.clip = NoClip

\* The request of a selection.
Selection(op, ids, offered, ordered) ==
  [Idle EXCEPT !.pc = "wait", !.op = op, !.ids = ids, !.offered = offered, !.ordered = ordered]

LEMMA SelectionType ==
  ASSUME NEW op \in Ops, NEW ids \in SUBSET Collections, NEW offered \in Offers,
         NEW ordered \in BOOLEAN
  PROVE  Waiting(Selection(op, ids, offered, ordered))
         /\ Selection(op, ids, offered, ordered).ids = ids
<1>1. Idle \in CallStates /\ Idle.clip = NoClip /\ "wait" \in {"idle", "wait", "saving"}
  BY IdleType
<1> QED BY <1>1 DEF CallStates, Waiting, Selection

LEMMA ResetRequestType ==
  /\ \A ids \in SUBSET Collections :
       Waiting([Idle EXCEPT !.pc = "wait", !.op = "reset", !.ids = ids])
  /\ Waiting([Idle EXCEPT !.pc = "wait", !.op = "daily"])
<1>1. /\ Idle \in CallStates /\ Idle.clip = NoClip
      /\ "wait" \in {"idle", "wait", "saving"} /\ "reset" \in Ops /\ "daily" \in Ops
  BY IdleType DEF Ops
<1>2. ASSUME NEW ids \in SUBSET Collections
      PROVE  Waiting([Idle EXCEPT !.pc = "wait", !.op = "reset", !.ids = ids])
  BY <1>1, <1>2 DEF CallStates, Waiting
<1>3. Waiting([Idle EXCEPT !.pc = "wait", !.op = "daily"])
  BY <1>1 DEF CallStates, Waiting
<1> QED BY <1>2, <1>3

LEMMA RequestKeeps ==
  ASSUME HistoryInv, NEW k \in Calls, Requests(k)
  PROVE  HistoryInv'
<1>1. ASSUME NEW to, Waiting(to), Begin(k, to), to.op = "select" => \A c, d \in to.ids : c = d
      PROVE  HistoryInv'
  <2>1. lock # k
    BY <1>1 DEF Begin, HistoryInv, TypeOK
  <2> QED BY <1>1, <2>1, CallKeeps DEF Begin, Waiting
<1>2. ASSUME NEW c \in Collections, NEW offered \in Offers, NEW ordered \in BOOLEAN,
             NEW op \in {"select", "dry"}, AskSelect(k, c, offered, ordered, op)
      PROVE  HistoryInv'
  <2> DEFINE to == Selection(op, {c}, offered, ordered)
  <2>1. Waiting(to) /\ to.ids = {c}
    <3>1. {c} \in SUBSET Collections /\ op \in Ops
      BY DEF Ops
    <3> QED BY <3>1, SelectionType
  <2>2. Begin(k, to)
    BY <1>2 DEF AskSelect, Selection
  <2> HIDE DEF to
  <2> QED BY <1>1, <2>1, <2>2
<1>3. ASSUME NEW ids \in SUBSET Collections, AskReset(k, ids)
      PROVE  HistoryInv'
  <2> DEFINE to == [Idle EXCEPT !.pc = "wait", !.op = "reset", !.ids = ids]
  <2>1. Waiting(to)
    BY ResetRequestType
  <2>2. Begin(k, to) /\ to.op = "reset"
    BY <1>3 DEF AskReset, Idle
  <2> HIDE DEF to
  <2> QED BY <1>1, <2>1, <2>2
<1>4. CASE AskDaily(k)
  <2> DEFINE to == [Idle EXCEPT !.pc = "wait", !.op = "daily"]
  <2>1. Waiting(to)
    BY ResetRequestType
  <2>2. Begin(k, to) /\ to.op = "daily"
    BY <1>4 DEF AskDaily, Idle
  <2> HIDE DEF to
  <2> QED BY <1>1, <2>1, <2>2
<1> QED BY <1>2, <1>3, <1>4 DEF Requests

LEMMA RehearseKeeps ==
  ASSUME HistoryInv, NEW k \in Calls, Rehearse(k)
  PROVE  HistoryInv'
<1>1. lock # k
  BY HistoryAssumption DEF Rehearse, Granted
<1> QED BY <1>1, CallKeeps, IdleType DEF Rehearse, Return

\* The page of a claim, once the caller has its answer or has lost it, and the pages
\* of other collections, go with memory.
LEMMA ClaimedPage ==
  ASSUME HistoryInv, NEW k \in Calls, NEW c \in Collections, Claims(k, c)
  PROVE  /\ lock = k /\ call[k].clip \in ClipIds /\ call[k].clip \in history[c].played
         /\ InHand(k, c) /\ Agree(history, ledger, c) /\ call[k].round \in Nat
         /\ ledger[c] \in Pages /\ history[c] \in Records /\ heard[c] \in Nat
<1>1. lock = k /\ InHand(k, c) /\ Agree(history, ledger, c)
  BY OnlyHolder DEF HistoryInv, Claims
<1>2. /\ call[k] \in CallStates /\ ledger[c] \in Pages /\ history[c] \in Records
      /\ heard[c] \in Nat
  BY DEF HistoryInv, TypeOK
<1>3. call[k].clip \in ClipIds /\ call[k].round \in Nat
  BY <1>2 DEF CallStates, Claims
<1> QED BY <1>1, <1>2, <1>3 DEF InHand

LEMMA UnclaimedPage ==
  ASSUME HistoryInv, NEW k \in Calls, lock = k, NEW c \in Collections, ~Claims(k, c)
  PROVE  Agree(history, ledger, c) /\ Settled(history, ledger, c) /\ ledger[c] \in Pages
<1>1. \A j \in Calls : ~Claims(j, c)
  BY OnlyHolder DEF Claims
<1> QED BY <1>1 DEF HistoryInv, TypeOK

LEMMA SavedKeeps ==
  ASSUME HistoryInv, NEW k \in Calls, Saved(k)
  PROVE  HistoryInv'
<1>1. /\ lock = k /\ stored' = history /\ lock' = Free /\ call' = [call EXCEPT ![k] = Idle]
      /\ ledger' = Answered(k) /\ kept' = ledger' /\ heard' = Told(k)
      /\ UNCHANGED <<history, day, faults>>
      /\ TypeOK /\ OneClaim
  BY DEF Saved, Return, HistoryInv
<1>2. /\ \A j \in Calls : call'[j].clip = NoClip /\ call'[j].pc # "saving"
      /\ call' \in [Calls -> CallStates]
      /\ \A j \in Calls : j # k => call'[j] = call[j]
      /\ call'[k].pc = "idle"
  BY <1>1, OnlyHolder, IdleType DEF TypeOK
<1>3. ASSUME NEW c \in Collections, Claims(k, c)
      PROVE  /\ ledger'[c] \in Pages /\ heard'[c] \in Nat
             /\ Agree(history, ledger, c)' /\ Settled(history, ledger, c)'
  <2>1. /\ call[k].clip \in ClipIds /\ call[k].clip \in history[c].played
        /\ InHand(k, c) /\ Agree(history, ledger, c) /\ call[k].round \in Nat
        /\ ledger[c] \in Pages /\ history[c] \in Records /\ heard[c] \in Nat
    BY <1>3, ClaimedPage
  <2>2. /\ heard'[c] = call[k].round
        /\ ledger'[c] = [ledger[c] EXCEPT
             !.shown = IF Counts(c) THEN @ \cup {call[k].clip} ELSE @, !.blurred = FALSE]
    BY <1>1, <1>3 DEF Answered, Told
  <2>3. /\ ledger'[c] \in Pages
        /\ ledger'[c].shown = IF Counts(c) THEN ledger[c].shown \cup {call[k].clip}
                              ELSE ledger[c].shown
        /\ ledger'[c].lost = ledger[c].lost
    <3> DEFINE seen == IF Counts(c) THEN ledger[c].shown \cup {call[k].clip} ELSE ledger[c].shown
    <3>1. seen \in SUBSET ClipIds
      BY <2>1 DEF Pages
    <3>2. ledger'[c] = [ledger[c] EXCEPT !.shown = seen, !.blurred = FALSE]
      BY <2>2, Zenon
    <3> HIDE DEF seen
    <3>3. ledger'[c] \in Pages /\ ledger'[c].shown = seen /\ ledger'[c].lost = ledger[c].lost
      BY <2>1, <3>1, <3>2 DEF Pages
    <3> QED BY <3>3 DEF seen
  <2>4. heard'[c] = history[c].round /\ ~history[c].pending /\ history[c].round \in Nat
    BY <2>1, <2>2 DEF InHand, Records
  <2>5. Agree(history, ledger, c)'
    <3>1. ledger'[c].shown \subseteq history[c].played
      BY <2>1, <2>3 DEF Agree
    <3>2. heard'[c] <= history[c].round
      BY <2>4
    <3> QED BY <1>1, <2>1, <3>1, <3>2 DEF Agree
  <2>6. Settled(history, ledger, c)'
    <3>1. Counts(c) => history[c].played \subseteq ledger'[c].shown \cup ledger'[c].lost
      BY <2>1, <2>3 DEF InHand
    <3>2. ~(history[c].round > heard'[c])
      BY <2>4
    <3> QED BY <1>1, <2>4, <3>1, <3>2 DEF Settled, Counts
  <2> QED BY <2>2, <2>1, <2>3, <2>5, <2>6
<1>4. ASSUME NEW c \in Collections, ~Claims(k, c)
      PROVE  /\ ledger'[c] \in Pages /\ heard'[c] \in Nat
             /\ Agree(history, ledger, c)' /\ Settled(history, ledger, c)'
  <2>1. ledger'[c] = ledger[c] /\ heard'[c] = heard[c]
    BY <1>1, <1>4 DEF Answered, Told
  <2>2. Agree(history, ledger, c) /\ Settled(history, ledger, c) /\ ledger[c] \in Pages
    BY <1>1, <1>4, UnclaimedPage
  <2>3. heard[c] \in Nat
    BY <1>1 DEF TypeOK
  <2> QED BY <1>1, <2>1, <2>2, <2>3 DEF Agree, Settled
<1>5. ledger' \in [Collections -> Pages] /\ heard' \in [Collections -> Nat]
  BY <1>1, <1>3, <1>4 DEF Answered, Told
<1>6. TypeOK'
  BY <1>1, <1>2, <1>5, HistoryAssumption DEF TypeOK
<1>7. OneClaim'
  BY <1>1, <1>2 DEF OneClaim
<1>8. \A c \in Collections : Agree(stored, kept, c)' /\ Settled(stored, kept, c)'
  <2>1. \A c \in Collections : stored'[c] = history'[c] /\ kept'[c] = ledger'[c]
    BY <1>1
  <2> QED BY <1>3, <1>4, <2>1 DEF Agree, Settled
<1> QED BY <1>2, <1>3, <1>4, <1>6, <1>7, <1>8, NothingInHand

\* A claim whose caller never gets an answer leaves memory settled.
LEMMA ForgoneSettles ==
  ASSUME HistoryInv
  PROVE  /\ Forgone \in [Collections -> Pages]
         /\ \A c \in Collections : Agree(history, Forgone, c) /\ Settled(history, Forgone, c)
<1>1. ASSUME NEW c \in Collections, NEW k \in Calls, lock = k, Claims(k, c)
      PROVE  Forgone[c] \in Pages /\ Agree(history, Forgone, c) /\ Settled(history, Forgone, c)
  <2>1. /\ call[k].clip \in ClipIds /\ InHand(k, c) /\ Agree(history, ledger, c)
        /\ ledger[c] \in Pages /\ history[c] \in Records
    BY <1>1, ClaimedPage
  <2>2. Forgone[c] = [ledger[c] EXCEPT
             !.lost = IF Counts(c) THEN @ \cup {call[k].clip} ELSE @, !.blurred = TRUE]
    BY <1>1 DEF Forgone
  <2>3. /\ Forgone[c] \in Pages /\ Forgone[c].shown = ledger[c].shown
        /\ Forgone[c].lost = IF Counts(c) THEN ledger[c].lost \cup {call[k].clip}
                             ELSE ledger[c].lost
        /\ Forgone[c].blurred = TRUE
    BY <2>1, <2>2 DEF Pages
  <2>4. Agree(history, Forgone, c)
    BY <2>1, <2>3 DEF Agree
  <2>5. Settled(history, Forgone, c)
    BY <2>1, <2>3 DEF InHand, Settled, Counts
  <2> QED BY <2>3, <2>4, <2>5
<1>2. ASSUME NEW c \in Collections, ~\E k \in Calls : lock = k /\ Claims(k, c)
      PROVE  Forgone[c] \in Pages /\ Agree(history, Forgone, c) /\ Settled(history, Forgone, c)
  <2>1. Forgone[c] = ledger[c]
    BY <1>2 DEF Forgone
  <2>2. \A k \in Calls : ~Claims(k, c)
    BY <1>2, OnlyHolder DEF Claims
  <2>3. Agree(history, ledger, c) /\ Settled(history, ledger, c) /\ ledger[c] \in Pages
    BY <2>2 DEF HistoryInv, TypeOK
  <2> QED BY <2>1, <2>3 DEF Agree, Settled
<1> QED BY <1>1, <1>2 DEF Forgone

LEMMA SaveRaisesKeeps ==
  ASSUME HistoryInv, NEW k \in Calls, SaveRaises(k)
  PROVE  HistoryInv'
<1>1. /\ lock = k /\ ledger' = Forgone /\ lock' = Free /\ call' = [call EXCEPT ![k] = Idle]
      /\ faults' = faults + 1 /\ UNCHANGED <<history, day, heard>>
      /\ (stored' = history /\ kept' = ledger') \/ UNCHANGED <<stored, kept>>
      /\ TypeOK /\ OneClaim
  BY DEF SaveRaises, Return, HistoryInv
<1>2. /\ \A j \in Calls : call'[j].clip = NoClip /\ call'[j].pc # "saving"
      /\ call' \in [Calls -> CallStates]
      /\ \A j \in Calls : j # k => call'[j] = call[j]
      /\ call'[k].pc = "idle"
  BY <1>1, OnlyHolder, IdleType DEF TypeOK
<1>3. TypeOK'
  BY <1>1, <1>2, ForgoneSettles, HistoryAssumption DEF TypeOK
<1>4. OneClaim'
  BY <1>1, <1>2 DEF OneClaim
<1>5. \A c \in Collections : Agree(history, ledger, c)' /\ Settled(history, ledger, c)'
  BY <1>1, ForgoneSettles DEF Agree, Settled
<1>6. \A c \in Collections : Agree(stored, kept, c)' /\ Settled(stored, kept, c)'
  <2>1. CASE stored' = history /\ kept' = ledger'
    BY <1>1, <1>5, <2>1 DEF Agree, Settled
  <2>2. CASE UNCHANGED <<stored, kept>>
    BY <1>1, <2>2, FileFrame
  <2> QED BY <1>1, <2>1, <2>2
<1> QED BY <1>2, <1>3, <1>4, <1>5, <1>6, NothingInHand

LEMMA RestartKeeps ==
  ASSUME HistoryInv, Restart
  PROVE  HistoryInv'
<1>1. PICK saved \in BOOLEAN :
        LET file  == IF saved THEN history ELSE stored
            pages == IF saved THEN Forgone ELSE kept
        IN  history' = Reconciled(file) /\ ledger' = Cleared(pages, Due(file))
  BY DEF Restart
<1> DEFINE file  == IF saved THEN history ELSE stored
           pages == IF saved THEN Forgone ELSE kept
<1>2. /\ stored' = history' /\ kept' = ledger' /\ lock' = Free
      /\ call' = [k \in Calls |-> Idle] /\ faults' = faults + 1 /\ UNCHANGED <<day, heard>>
      /\ Timed /\ TypeOK
  BY InvTimed DEF Restart, HistoryInv
<1>3. /\ file \in [Collections -> Records] /\ pages \in [Collections -> Pages]
      /\ \A c \in Collections : Agree(file, pages, c) /\ Settled(file, pages, c)
  <2>1. CASE saved
    BY <2>1, InvTimed, ForgoneSettles
  <2>2. CASE ~saved
    BY <2>2, InvTimed DEF HistoryInv
  <2> QED BY <2>1, <2>2
<1>4. history' = Wiped(file, Due(file)) /\ ledger' = Cleared(pages, Due(file))
  BY <1>1, ReconciledIsWiped
<1> HIDE DEF file, pages
<1>5. /\ history' \in [Collections -> Records] /\ ledger' \in [Collections -> Pages]
  BY <1>2, <1>3, <1>4, WipedTypes
<1>6. \A c \in Collections :
        /\ Agree(Wiped(file, Due(file)), Cleared(pages, Due(file)), c)
        /\ Settled(Wiped(file, Due(file)), Cleared(pages, Due(file)), c)
  <2>1. \A c \in Due(file) : file[c].known
    BY DEF Due
  <2> QED BY <1>2, <1>3, <2>1, ResetKeeps
<1>7. \A c \in Collections : Agree(history, ledger, c)' /\ Settled(history, ledger, c)'
  BY <1>2, <1>4, <1>6 DEF Agree, Settled
<1>8. \A c \in Collections : Agree(stored, kept, c)' /\ Settled(stored, kept, c)'
  BY <1>2, <1>7 DEF Agree, Settled
<1>9. \A j \in Calls : call'[j] \in CallStates /\ call'[j].pc = "idle" /\ call'[j].clip = NoClip
  BY <1>2, IdleType
<1>10. TypeOK'
  BY <1>2, <1>5, <1>9, HistoryAssumption DEF TypeOK
<1>11. OneClaim'
  BY <1>9 DEF OneClaim
<1> QED BY <1>7, <1>8, <1>9, <1>10, <1>11, NothingInHand

LEMMA NextDayKeeps ==
  ASSUME HistoryInv, NextDay
  PROVE  HistoryInv'
<1>1. /\ day' = day + 1 /\ UNCHANGED <<history, stored, lock, call, faults, heard>>
      /\ ledger' = IF Daily THEN Cleared(ledger, Collections) ELSE ledger
      /\ kept' = IF Daily THEN Cleared(kept, Collections) ELSE kept
  BY DEF NextDay
<1>2. /\ TypeOK /\ OneClaim /\ Timed /\ day \in Nat
      /\ history \in [Collections -> Records] /\ stored \in [Collections -> Records]
      /\ ledger \in [Collections -> Pages] /\ kept \in [Collections -> Pages]
  BY InvTimed DEF HistoryInv, Timed
<1>3. /\ ledger' \in [Collections -> Pages] /\ kept' \in [Collections -> Pages]
      /\ \A c \in Collections :
           /\ ledger'[c].shown = IF Daily THEN {} ELSE ledger[c].shown
           /\ ledger'[c].lost = IF Daily THEN {} ELSE ledger[c].lost
           /\ ledger'[c].blurred = ledger[c].blurred
           /\ kept'[c].shown = IF Daily THEN {} ELSE kept[c].shown
           /\ kept'[c].lost = IF Daily THEN {} ELSE kept[c].lost
           /\ kept'[c].blurred = kept[c].blurred
  <2>1. CASE Daily
    <3>1. /\ Cleared(ledger, Collections) \in [Collections -> Pages]
          /\ \A c \in Collections : Cleared(ledger, Collections)[c] =
               [shown |-> {}, lost |-> {}, blurred |-> ledger[c].blurred]
      BY <1>2, WipedTypes
    <3>2. /\ Cleared(kept, Collections) \in [Collections -> Pages]
          /\ \A c \in Collections : Cleared(kept, Collections)[c] =
               [shown |-> {}, lost |-> {}, blurred |-> kept[c].blurred]
      BY <1>2, WipedTypes
    <3> QED BY <1>1, <2>1, <3>1, <3>2
  <2>2. CASE ~Daily
    BY <1>1, <1>2, <2>2
  <2> QED BY <2>1, <2>2
<1>4. TypeOK'
  BY <1>1, <1>2, <1>3 DEF TypeOK
<1>5. OneClaim'
  BY <1>1, <1>2 DEF OneClaim
<1>6. ASSUME NEW c \in Collections, Agree(history, ledger, c)
      PROVE  /\ Agree(history, ledger, c)' /\ history[c].period # day'
             /\ Settled(history, ledger, c) => Settled(history, ledger, c)'
  <2>1. history[c].period \in Nat /\ history[c].period <= day
    BY <1>2, <1>6 DEF Agree, Records
  <2>2. history[c].period <= day' /\ history[c].period # day'
    BY <1>1, <1>2, <2>1
  <2>3. Agree(history, ledger, c)'
    BY <1>1, <1>3, <1>6, <2>2 DEF Agree
  <2> QED BY <1>1, <1>3, <2>2, <2>3 DEF Settled
<1>7. ASSUME NEW c \in Collections, Agree(stored, kept, c), Settled(stored, kept, c)
      PROVE  Agree(stored, kept, c)' /\ Settled(stored, kept, c)'
  <2>1. stored[c].period \in Nat /\ stored[c].period <= day
    BY <1>2, <1>7 DEF Agree, Records
  <2>2. stored[c].period <= day' /\ stored[c].period # day'
    BY <1>1, <1>2, <2>1
  <2>3. Agree(stored, kept, c)'
    BY <1>1, <1>3, <1>7, <2>2 DEF Agree
  <2>4. Settled(stored, kept, c)'
    BY <1>1, <1>3, <1>7, <2>2 DEF Settled
  <2> QED BY <2>3, <2>4
<1>8. ASSUME NEW k \in Calls, NEW c \in Collections, InHand(k, c), Agree(history, ledger, c)
      PROVE  InHand(k, c)'
  <2>1. history[c].period # day'
    BY <1>6, <1>8
  <2> QED BY <1>1, <1>3, <1>8, <2>1 DEF InHand, Counts
<1>9. \A k \in Calls, c \in Collections : Claims(k, c)' <=> Claims(k, c)
  BY <1>1 DEF Claims
<1> QED BY <1>4, <1>5, <1>6, <1>7, <1>8, <1>9 DEF HistoryInv

-----------------------------------------------------------------------------
(* The theorems.                                                           *)

LEMMA NextKeeps == HistoryInv /\ [Next]_vars => HistoryInv'
<1> SUFFICES ASSUME HistoryInv, [Next]_vars PROVE HistoryInv'
  OBVIOUS
<1>1. ASSUME NEW k \in Calls, Step(k) PROVE HistoryInv'
  BY <1>1, RehearseKeeps, ClaimKeeps, SelectNothingKeeps, WipeKeeps, SavedKeeps,
     SaveRaisesKeeps DEF Step
<1>2. CASE UNCHANGED vars
  <2>1. TypeOK' /\ OneClaim'
    BY <1>2 DEF HistoryInv, vars, TypeOK, OneClaim
  <2> QED BY <1>2, <2>1 DEF HistoryInv, vars, Agree, Settled, Claims, InHand, Counts
<1> QED BY <1>1, <1>2, RequestKeeps, RestartKeeps, NextDayKeeps DEF Next

\* The records, the pages the ledger keeps of them and the claims in hand go together
\* in every reachable state: the invariant the other theorems rest on.
THEOREM HistoryInvariant == Spec => []HistoryInv
BY InitHolds, NextKeeps, PTL DEF Spec

\* Records, calls and ledger have their types, and the lock is held exactly by the
\* call whose save is under way.
THEOREM HistoryTypes == Spec => []TypeOK
<1>1. HistoryInv => TypeOK
  BY DEF HistoryInv
<1> QED BY <1>1, HistoryInvariant, PTL

\* async_select never answers a clip twice in a round, whatever saves raise and
\* however often Home Assistant is restarted.
THEOREM NothingIsRepeated == Spec => []NoRepeat
<1>1. HistoryInv => NoRepeat
  BY DEF HistoryInv, NoRepeat, InHand
<1> QED BY <1>1, HistoryInvariant, PTL

\* Today's marks of a collection were all earned: no clip is passed over in a round
\* without an answer, a claim in hand or a claim that failed.
THEOREM NothingIsPassedOver == Spec => []MarksAreEarned
<1>1. ASSUME HistoryInv, NEW c \in Collections, Counts(c)
      PROVE  history[c].played \subseteq
               ledger[c].shown \cup ledger[c].lost
               \cup {call[k].clip : k \in {k \in Calls : call[k].pc = "saving" /\ Claims(k, c)}}
  <2>1. CASE \A k \in Calls : ~Claims(k, c)
    BY <1>1, <2>1 DEF HistoryInv, Settled, Counts
  <2>2. ASSUME NEW k \in Calls, Claims(k, c)
        PROVE  history[c].played \subseteq
                 ledger[c].shown \cup ledger[c].lost
                 \cup {call[j].clip : j \in {j \in Calls : call[j].pc = "saving" /\ Claims(j, c)}}
    <3>1. InHand(k, c) /\ call[k].pc = "saving"
      BY <1>1, <2>2 DEF HistoryInv, OneClaim, Claims
    <3>2. history[c].played \subseteq ledger[c].shown \cup ledger[c].lost \cup {call[k].clip}
      BY <1>1, <3>1 DEF InHand
    <3>3. call[k].clip \in
            {call[j].clip : j \in {j \in Calls : call[j].pc = "saving" /\ Claims(j, c)}}
      BY <2>2, <3>1
    <3> QED BY <3>2, <3>3
  <2> QED BY <2>1, <2>2
<1>2. HistoryInv => MarksAreEarned
  BY <1>1 DEF MarksAreEarned
<1> QED BY <1>2, HistoryInvariant, PTL

\* No restart and no save that raises takes a collection back to a round before the
\* one a caller was answered in.
THEOREM AnsweredRoundsStay == Spec => []RoundsAreDurable
<1>1. HistoryInv => RoundsAreDurable
  BY DEF HistoryInv, RoundsAreDurable, Agree
<1> QED BY <1>1, HistoryInvariant, PTL

\* history_reset in an answer says whether a round has begun since the last answer,
\* unless a claim was lost in between.
THEOREM FlagTellsOfRounds == Spec => []FlagMatchesRound
<1>1. HistoryInv => FlagMatchesRound
  BY DEF HistoryInv, FlagMatchesRound, InHand
<1> QED BY <1>1, HistoryInvariant, PTL

-----------------------------------------------------------------------------
(* Rollovers.                                                              *)

\* The claims of a selection that starts a new round are of clips that were played.
RollsEarned(k, c) ==
  /\ call[k].pc = "wait" /\ call'[k].pc = "saving" /\ call[k].op = "select"
  /\ c \in call[k].ids
  /\ history'[c].round > history[c].round + (IF c \in Due(history) THEN 1 ELSE 0)
  => Members(call[k].offered) \subseteq ledger[c].shown \cup ledger[c].lost

LEMMA ReconciledRound ==
  ASSUME HistoryInv, NEW c \in Collections
  PROVE  /\ Reconciled(history)[c] \in Records /\ history[c] \in Records
         /\ Reconciled(history)[c].round = history[c].round + (IF c \in Due(history) THEN 1 ELSE 0)
         /\ c \in Due(history) => Reconciled(history)[c].played = {}
         /\ c \notin Due(history) => Reconciled(history)[c] = history[c]
<1>1. Timed /\ history[c] \in Records
  BY InvTimed
<1>2. CASE c \in Due(history)
  <2>1. Reconciled(history)[c] = Reset(history[c])
    BY <1>2 DEF Reconciled
  <2>2. /\ Reset(history[c]) \in Records /\ Reset(history[c]).round = history[c].round + 1
        /\ Reset(history[c]).played = {}
    BY <1>1, ResetType
  <2> QED BY <1>1, <1>2, <2>1, <2>2
<1>3. CASE c \notin Due(history)
  <2>1. Reconciled(history)[c] = history[c]
    BY <1>3 DEF Reconciled
  <2>2. history[c].round + 0 = history[c].round
    BY <1>1 DEF Records
  <2> QED BY <1>1, <1>3, <2>1, <2>2
<1> QED BY <1>2, <1>3

LEMMA ClaimRolls ==
  ASSUME HistoryInv, NEW k \in Calls, Claim(k), NEW c \in Collections
  PROVE  RollsEarned(k, c)
<1> SUFFICES ASSUME c \in call[k].ids,
                    history'[c].round >
                      history[c].round + (IF c \in Due(history) THEN 1 ELSE 0)
             PROVE  Members(call[k].offered) \subseteq ledger[c].shown \cup ledger[c].lost
  BY DEF RollsEarned
<1> DEFINE eligible == Members(call[k].offered)
           fresh    == Reconciled(history)
           turn     == Turn(fresh[c], eligible)
<1>1. /\ lock = Free /\ call[k].pc = "wait" /\ call[k].op = "select"
      /\ call[k] \in CallStates /\ OneClaim /\ Settled(history, ledger, c)
      /\ Agree(history, ledger, c)
  BY FreeIsSettled DEF Claim, Granted, HistoryInv, TypeOK
<1>2. eligible \in SUBSET ClipIds
  <2>1. call[k].offered \in Offers \cup {<<>>}
    BY <1>1 DEF CallStates
  <2>2. call[k].offered \in Seq(ClipIds)
    BY <2>1, EmptySeq, HistoryAssumption
  <2> QED BY <2>2, MembersType
<1>3. \A d \in call[k].ids : d = c
  BY <1>1 DEF OneClaim
<1>4. PICK clip : history' = [fresh EXCEPT ![c] = Claimed(@, turn, clip)]
  BY <1>3 DEF Claim
<1>5. /\ fresh[c] \in Records
      /\ fresh[c].round = history[c].round + (IF c \in Due(history) THEN 1 ELSE 0)
      /\ c \in Due(history) => fresh[c].played = {}
      /\ c \notin Due(history) => fresh[c] = history[c]
  BY ReconciledRound
<1>6. history'[c].round = turn.round
  BY <1>4 DEF Claimed, Reconciled
<1>7. turn.rolled = TRUE /\ eligible # {} /\ eligible \subseteq fresh[c].played
  <2>1. \/ /\ turn.round = fresh[c].round + 1 /\ turn.rolled = TRUE
           /\ eligible # {} /\ eligible \subseteq fresh[c].played
        \/ turn.round = fresh[c].round
    BY <1>2, <1>5, TurnFacts
  <2>2. turn.round > fresh[c].round /\ fresh[c].round \in Nat
    BY <1>5, <1>6 DEF Records
  <2> HIDE DEF turn, fresh, eligible
  <2> QED BY <2>1, <2>2
<1>8. c \notin Due(history) /\ eligible # {} /\ eligible \subseteq history[c].played
  BY <1>5, <1>7
<1>9. Daily => history[c].period = day
  <2>1. history[c].known
    BY <1>1, <1>8 DEF Agree, NoRecord
  <2> QED BY <1>8, <2>1 DEF Due
<1> QED BY <1>1, <1>8, <1>9 DEF Settled

LEMMA SelectNothingRolls ==
  ASSUME HistoryInv, NEW k \in Calls, SelectNothing(k), NEW c \in Collections
  PROVE  RollsEarned(k, c)
<1>1. history'[c] = Reconciled(history)[c]
  BY DEF SelectNothing
<1>2. history'[c].round = history[c].round + (IF c \in Due(history) THEN 1 ELSE 0)
      /\ history'[c].round \in Nat
  BY <1>1, ReconciledRound DEF Records
<1>3. ~(history'[c].round > history[c].round + (IF c \in Due(history) THEN 1 ELSE 0))
  BY <1>2
<1> QED BY <1>3 DEF RollsEarned

LEMMA StepRolls ==
  ASSUME HistoryInv, [Next]_vars, NEW k \in Calls, NEW c \in Collections
  PROVE  RollsEarned(k, c)
<1> SUFFICES ASSUME call[k].pc = "wait", call'[k].pc = "saving", call[k].op = "select"
             PROVE  RollsEarned(k, c)
  BY DEF RollsEarned
<1>1. call \in [Calls -> CallStates]
  BY DEF HistoryInv, TypeOK
<1>2. ASSUME NEW j \in Calls, Requests(j) PROVE FALSE
  <2>1. call[j].pc = "idle" /\ \E to : call' = [call EXCEPT ![j] = to]
    BY <1>2 DEF Requests, AskSelect, AskReset, AskDaily, Begin
  <2> QED BY <1>1, <2>1
<1>3. ASSUME NEW j \in Calls, j # k, Step(j) PROVE FALSE
  <2>1. call'[k] = call[k]
    BY <1>1, <1>3 DEF Step, Rehearse, Claim, SelectNothing, Wipe, Saved, SaveRaises, Return
  <2> QED BY <2>1
<1>4. CASE Step(k)
  <2>1. ~Rehearse(k) /\ ~Wipe(k) /\ ~Saved(k) /\ ~SaveRaises(k)
    BY DEF Rehearse, Wipe, Granted, Saved, SaveRaises
  <2> QED BY <1>4, <2>1, ClaimRolls, SelectNothingRolls DEF Step
<1>5. ~Restart /\ ~NextDay /\ ~UNCHANGED vars
  BY IdleType DEF Restart, NextDay, vars
<1> QED BY <1>2, <1>3, <1>4, <1>5 DEF Next

\* A collection's history rolls over only when every clip the selection was offered
\* has been answered, or claimed by a call that failed, since the round began.
THEOREM RolloversAreEarned == Spec => RolloverIsEarned
<1>1. HistoryInv /\ [Next]_vars => [\A k \in Calls, c \in Collections : RollsEarned(k, c)]_vars
  BY StepRolls
<1>2. RolloverIsEarned <=> [][\A k \in Calls, c \in Collections : RollsEarned(k, c)]_vars
  BY PTL DEF RolloverIsEarned, RollsEarned
<1> QED BY <1>1, <1>2, HistoryInvariant, PTL DEF Spec

-----------------------------------------------------------------------------
(* Places in an order.  An element of a finite set has as many elements    *)
(* before it as its place says, and no place below the size of the set is  *)
(* free.  Rows of a listing and candidates of a selection are found by     *)
(* their places.                                                           *)

PlaceIn(S, key, c) == Cardinality({d \in S : key[d] < key[c]})

\* Keys tell the elements apart.
Keyed(S, key) ==
  /\ \A c \in S : key[c] \in Nat
  /\ \A c, d \in S : key[c] = key[d] => c = d

LEMMA SizeOfInterval ==
  ASSUME NEW a \in Nat, NEW b \in Nat, a <= b
  PROVE  IsFiniteSet(a .. b - 1) /\ Cardinality(a .. b - 1) = b - a
<1>1. a \in Int /\ b - 1 \in Int OBVIOUS
<1>2. /\ IsFiniteSet(a .. b - 1)
      /\ Cardinality(a .. b - 1) = IF a > b - 1 THEN 0 ELSE (b - 1) - a + 1
  BY <1>1, FS_Interval
<1> QED BY <1>2

LEMMA PlacesGrow ==
  ASSUME NEW S, IsFiniteSet(S), NEW key, Keyed(S, key), NEW c \in S
  PROVE  /\ PlaceIn(S, key, c) \in Nat /\ PlaceIn(S, key, c) < Cardinality(S)
         /\ \A d \in S : key[c] < key[d] => PlaceIn(S, key, c) < PlaceIn(S, key, d)
<1> DEFINE Below(d) == {e \in S : key[e] < key[d]}
<1>1. \A d \in S : key[d] \in Nat BY DEF Keyed
<1>2. \A d \in S : /\ IsFiniteSet(Below(d)) /\ Cardinality(Below(d)) \in Nat
                   /\ Below(d) \in SUBSET S
  <2>1. TAKE d \in S
  <2>2. Below(d) \in SUBSET S OBVIOUS
  <2> HIDE DEF Below
  <2> QED BY <2>2, FS_Subset, FS_CardinalityType
<1>3. Cardinality(S) \in Nat BY FS_CardinalityType
<1>4. Cardinality(Below(c)) < Cardinality(S)
  <2>1. c \notin Below(c) BY <1>1
  <2>2. Cardinality(Below(c)) <= Cardinality(S) /\ Cardinality(Below(c)) # Cardinality(S)
    <3> HIDE DEF Below
    <3> QED BY <1>2, <2>1, FS_Subset
  <2> QED BY <1>2, <1>3, <2>2
<1>5. ASSUME NEW d \in S, key[c] < key[d] PROVE Cardinality(Below(c)) < Cardinality(Below(d))
  <2>1. Below(c) \in SUBSET Below(d) /\ c \in Below(d) /\ c \notin Below(c)
    BY <1>1, <1>5
  <2>2. /\ Cardinality(Below(c)) <= Cardinality(Below(d))
        /\ Cardinality(Below(c)) # Cardinality(Below(d))
    <3> DEFINE lower == Below(c)
               upper == Below(d)
    <3>1. IsFiniteSet(upper) BY <1>2
    <3>2. lower \in SUBSET upper /\ c \in upper /\ c \notin lower BY <2>1
    <3> HIDE DEF lower, upper
    <3>3. Cardinality(lower) <= Cardinality(upper) /\ Cardinality(lower) # Cardinality(upper)
      BY <3>1, <3>2, FS_Subset
    <3> QED BY <3>3 DEF lower, upper
  <2>3. Cardinality(Below(c)) \in Nat /\ Cardinality(Below(d)) \in Nat BY <1>2
  <2> HIDE DEF Below
  <2> QED BY <2>2, <2>3
<1> QED BY <1>2, <1>4, <1>5 DEF PlaceIn

LEMMA PlacesDiffer ==
  ASSUME NEW S, IsFiniteSet(S), NEW key, Keyed(S, key), NEW c \in S, NEW d \in S,
         PlaceIn(S, key, c) = PlaceIn(S, key, d)
  PROVE  c = d
<1>1. key[c] \in Nat /\ key[d] \in Nat BY DEF Keyed
<1>2. ~(key[c] < key[d]) /\ ~(key[d] < key[c]) BY PlacesGrow
<1>3. key[c] = key[d] BY <1>1, <1>2
<1> QED BY <1>3 DEF Keyed

\* So many places hold no more elements.
LEMMA PlacesHoldOneEach ==
  ASSUME NEW S, IsFiniteSet(S), NEW key, Keyed(S, key), NEW D \in SUBSET S,
         NEW from \in Nat, NEW to \in Nat, from <= to,
         \A c \in D : from <= PlaceIn(S, key, c) /\ PlaceIn(S, key, c) < to
  PROVE  Cardinality(D) <= to - from
<1> DEFINE places == from .. to - 1
           place  == [c \in D |-> PlaceIn(S, key, c)]
<1>1. \A c \in D : place[c] \in places BY PlacesGrow
<1>2. place \in Injection(D, places)
  <2>1. place \in [D -> places] BY <1>1
  <2>2. ASSUME NEW c \in D, NEW d \in D, place[c] = place[d] PROVE c = d
    BY <2>2, PlacesDiffer
  <2> HIDE DEF place, places
  <2> QED BY <2>1, <2>2, Fun_IsInj
<1>3. IsFiniteSet(places) /\ Cardinality(places) = to - from
  BY SizeOfInterval
<1> HIDE DEF place, places
<1> QED BY <1>2, <1>3, FS_Injection

\* No place below the size of the set is free.
LEMMA PlacesAreTaken ==
  ASSUME NEW S, IsFiniteSet(S), NEW key, Keyed(S, key), NEW n \in Nat, n < Cardinality(S)
  PROVE  \E c \in S : PlaceIn(S, key, c) = n
<1> SUFFICES ASSUME \A c \in S : PlaceIn(S, key, c) # n PROVE FALSE
  OBVIOUS
<1> DEFINE above == {c \in S : n < PlaceIn(S, key, c)}
<1>1. \A c \in S : PlaceIn(S, key, c) \in Nat BY PlacesGrow
<1>2. Cardinality(S) \in Nat BY FS_CardinalityType
<1>3. CASE above = {}
  <2>1. \A c \in S : 0 <= PlaceIn(S, key, c) /\ PlaceIn(S, key, c) < n BY <1>1, <1>3
  <2>2. Cardinality(S) <= n - 0 BY <2>1, PlacesHoldOneEach
  <2> QED BY <1>2, <2>2
<1>4. CASE above # {}
  <2> DEFINE keys == {key[c] : c \in above}
             Less == OpToRel(<, Nat)
  <2>1. keys \in SUBSET Nat /\ keys # {} BY <1>4 DEF Keyed
  <2>2. IsWellFoundedOn(Less, Nat) BY NatLessThanWellFounded
  <2> HIDE DEF keys
  <2>3. PICK x \in keys : \A y \in keys : ~(<<y, x>> \in Less) BY <2>1, <2>2, WFMin
  <2>4. PICK c \in above : x = key[c] BY DEF keys
  <2>5. \A y \in keys : ~(y < x) BY <2>1, <2>3 DEF OpToRel
  <2> DEFINE D == {d \in S : key[d] < key[c]}
  <2>6. \A d \in D : 0 <= PlaceIn(S, key, d) /\ PlaceIn(S, key, d) < n
    BY <1>1, <2>4, <2>5 DEF keys
  <2>7. D \in SUBSET S OBVIOUS
  <2>8. Cardinality(D) <= n - 0
    <3> HIDE DEF D
    <3> QED BY <2>6, <2>7, PlacesHoldOneEach
  <2>9. Cardinality(D) \in Nat /\ n < Cardinality(D) BY <1>1, <2>4 DEF PlaceIn
  <2> QED BY <2>8, <2>9
<1> QED BY <1>3, <1>4

\* As many elements have one of some places as there are such places and elements.
LEMMA PlacesAreFull ==
  ASSUME NEW S, IsFiniteSet(S), NEW key, Keyed(S, key), NEW from \in Nat, NEW to \in Nat,
         from <= to
  PROVE  LET D == {c \in S : from <= PlaceIn(S, key, c) /\ PlaceIn(S, key, c) < to}
         IN  /\ Cardinality(D) \in Nat /\ Cardinality(D) <= to - from
             /\ to <= Cardinality(S) => Cardinality(D) = to - from
             /\ from <= Cardinality(S) /\ Cardinality(S) < to
                  => Cardinality(D) = Cardinality(S) - from
             /\ Cardinality(S) < from => Cardinality(D) = 0
<1> DEFINE D == {c \in S : from <= PlaceIn(S, key, c) /\ PlaceIn(S, key, c) < to}
           size == Cardinality(S)
<1>1. D \in SUBSET S OBVIOUS
<1>2. IsFiniteSet(D) /\ Cardinality(D) \in Nat /\ size \in Nat
  <2> HIDE DEF D
  <2> QED BY <1>1, FS_Subset, FS_CardinalityType
<1>3. Cardinality(D) <= to - from
  <2>1. \A c \in D : from <= PlaceIn(S, key, c) /\ PlaceIn(S, key, c) < to OBVIOUS
  <2> HIDE DEF D
  <2> QED BY <1>1, <2>1, PlacesHoldOneEach
<1>4. from <= size => Cardinality(D) <= size - from
  <2> SUFFICES ASSUME from <= size PROVE Cardinality(D) <= size - from OBVIOUS
  <2>1. \A c \in D : from <= PlaceIn(S, key, c) /\ PlaceIn(S, key, c) < size BY PlacesGrow
  <2> HIDE DEF D
  <2> QED BY <1>1, <1>2, <2>1, PlacesHoldOneEach
<1>5. ASSUME NEW k \in Nat, from <= k, k <= to, k <= size PROVE k - from <= Cardinality(D)
  <2> DEFINE places == from .. k - 1
             at == [n \in places |-> CHOOSE c \in S : PlaceIn(S, key, c) = n]
  <2>1. \A n \in places : at[n] \in S /\ PlaceIn(S, key, at[n]) = n
    <3>1. TAKE n \in places
    <3>2. n \in Nat /\ n < size BY <1>2, <1>5
    <3>3. \E c \in S : PlaceIn(S, key, c) = n BY <3>2, PlacesAreTaken
    <3> QED BY <3>3
  <2>2. \A n \in places : at[n] \in D BY <1>5, <2>1
  <2>3. at \in [places -> D] BY <2>2
  <2>4. \A m, n \in places : at[m] = at[n] => m = n BY <2>1
  <2> HIDE DEF at, D, places
  <2>5. at \in Injection(places, D) BY <2>3, <2>4, Fun_IsInj
  <2>6. Cardinality(places) = k - from BY <1>5, SizeOfInterval DEF places
  <2> QED BY <1>2, <2>5, <2>6, FS_Injection
<1>6. Cardinality(S) < from => Cardinality(D) = 0
  <2> SUFFICES ASSUME size < from PROVE D = {} BY FS_EmptySet
  <2> QED BY <1>2, PlacesGrow
<1> HIDE DEF D
<1>7. to <= size => Cardinality(D) = to - from BY <1>2, <1>3, <1>5
<1>8. from <= size /\ size < to => Cardinality(D) = size - from BY <1>2, <1>4, <1>5
<1> QED BY <1>2, <1>3, <1>6, <1>7, <1>8 DEF D

-----------------------------------------------------------------------------
(* Pages and orders by these places.                                       *)

Self == [c \in ClipIds |-> c]

LEMMA SelfKeyed ==
  ASSUME NEW S \in SUBSET ClipIds
  PROVE  /\ IsFiniteSet(S) /\ Keyed(S, Self) /\ Cardinality(S) \in Nat
         /\ \A c \in ClipIds : Cardinality({d \in S : d < c}) = PlaceIn(S, Self, c)
<1>1. IsFiniteSet(S) BY PlaybackAssumption, FS_Subset
<1>2. Cardinality(S) \in Nat BY <1>1, FS_CardinalityType
<1>3. Keyed(S, Self) BY PlaybackAssumption DEF Keyed, Self
<1>4. \A c \in ClipIds : {d \in S : d < c} = {d \in S : Self[d] < Self[c]} BY DEF Self
<1> QED BY <1>1, <1>2, <1>3, <1>4 DEF PlaceIn

\* More rows do not bring a row forward.
LEMMA PlacesOnlyGrow ==
  ASSUME NEW S \in SUBSET ClipIds, NEW T \in SUBSET S, NEW c \in T
  PROVE  /\ PlaceIn(T, Self, c) \in Nat /\ PlaceIn(S, Self, c) \in Nat
         /\ PlaceIn(T, Self, c) <= PlaceIn(S, Self, c)
<1> DEFINE inT == {d \in T : Self[d] < Self[c]}
           inS == {d \in S : Self[d] < Self[c]}
<1>1. inT \in SUBSET inS /\ inS \in SUBSET S OBVIOUS
<1>2. IsFiniteSet(S) BY SelfKeyed
<1> HIDE DEF inT, inS
<1>3. IsFiniteSet(inS) BY <1>1, <1>2, FS_Subset
<1>4. Cardinality(inT) <= Cardinality(inS) BY <1>1, <1>3, FS_Subset
<1>5. IsFiniteSet(inT) BY <1>1, <1>3, FS_Subset
<1>6. Cardinality(inT) \in Nat /\ Cardinality(inS) \in Nat BY <1>3, <1>5, FS_CardinalityType
<1> QED BY <1>4, <1>6 DEF inT, inS, PlaceIn

LEMMA PlaceTypes ==
  ASSUME NEW mode
  PROVE  /\ \A c \in ClipIds : Place(c, mode) \in Nat
         /\ \A c, d \in ClipIds : Place(c, mode) = Place(d, mode) => c = d
<1> DEFINE front == Members(CustomOrder)
           at(c) == CHOOSE i \in DOMAIN CustomOrder : CustomOrder[i] = c
<1>1. Len(CustomOrder) \in Nat /\ DOMAIN CustomOrder = 1 .. Len(CustomOrder)
  BY PlaybackAssumption
<1>2. \A c \in front : at(c) \in DOMAIN CustomOrder /\ CustomOrder[at(c)] = c
  BY DEF Members
<1>3. \A c \in ClipIds : c \in Nat BY PlaybackAssumption
<1>4. \A c \in front : at(c) \in Nat /\ at(c) <= Len(CustomOrder) BY <1>1, <1>2
<1>5. \A c \in ClipIds : IF mode = "custom" /\ c \in front THEN Place(c, mode) = at(c)
                         ELSE Place(c, mode) = Len(CustomOrder) + 1 + c
  BY DEF Place
<1> HIDE DEF at, front
<1> QED BY <1>1, <1>2, <1>3, <1>4, <1>5

\* The order has each clip once.
LEMMA OrderHasAll ==
  ASSUME NEW clips \in SUBSET ClipIds, NEW mode
  PROVE  Members(InOrder(clips, mode)) = clips
<1> DEFINE key == [c \in ClipIds |-> Place(c, mode)]
           order == InOrder(clips, mode)
<1>1. IsFiniteSet(clips) /\ Cardinality(clips) \in Nat BY SelfKeyed
<1>2. Keyed(clips, key) BY PlaceTypes DEF Keyed
<1>3. \A c \in clips :
        Cardinality({d \in clips : Place(d, mode) < Place(c, mode)}) = PlaceIn(clips, key, c)
  <2>1. \A c \in clips :
          {d \in clips : Place(d, mode) < Place(c, mode)} = {d \in clips : key[d] < key[c]}
    OBVIOUS
  <2> QED BY <2>1 DEF PlaceIn
<1> HIDE DEF key
<1>4. DOMAIN order = 1 .. Cardinality(clips) BY DEF InOrder
<1>5. \A i \in 1 .. Cardinality(clips) :
        order[i] = CHOOSE c \in clips :
          Cardinality({d \in clips : Place(d, mode) < Place(c, mode)}) = i - 1
  BY DEF InOrder
<1> HIDE DEF order
<1>6. \A i \in 1 .. Cardinality(clips) : order[i] \in clips /\ PlaceIn(clips, key, order[i]) = i - 1
  <2>1. TAKE i \in 1 .. Cardinality(clips)
  <2>2. i - 1 \in Nat /\ i - 1 < Cardinality(clips) BY <1>1
  <2>3. \E c \in clips : PlaceIn(clips, key, c) = i - 1 BY <1>1, <1>2, <2>2, PlacesAreTaken
  <2>4. \E c \in clips : Cardinality({d \in clips : Place(d, mode) < Place(c, mode)}) = i - 1
    BY <1>3, <2>3
  <2>5. /\ order[i] \in clips
        /\ Cardinality({d \in clips : Place(d, mode) < Place(order[i], mode)}) = i - 1
    BY <1>5, <2>4
  <2> QED BY <1>3, <2>5
<1>7. ASSUME NEW c \in clips PROVE \E i \in DOMAIN order : order[i] = c
  <2>1. PlaceIn(clips, key, c) \in Nat /\ PlaceIn(clips, key, c) < Cardinality(clips)
    BY <1>1, <1>2, PlacesGrow
  <2>2. PICK i \in 1 .. Cardinality(clips) : i - 1 = PlaceIn(clips, key, c) BY <1>1, <2>1
  <2>3. order[i] = c BY <1>1, <1>2, <1>6, <2>2, PlacesDiffer
  <2> QED BY <1>4, <2>3
<1> QED BY <1>4, <1>6, <1>7 DEF Members, order

LEMMA RowsListed ==
  ASSUME row \in [ClipIds -> RowStates]
  PROVE  /\ Listed \in SUBSET ClipIds /\ IsFiniteSet(Listed) /\ Keyed(Listed, Self)
         /\ Cardinality(Listed) \in Nat
         /\ \A c \in ClipIds : Rank(c) = PlaceIn(Listed, Self, c) + 1
<1>1. PICK L \in SUBSET ClipIds : L = Listed BY DEF Listed
<1>2. \A c \in ClipIds : Rank(c) = PlaceIn(L, Self, c) + 1 BY <1>1, SelfKeyed DEF Rank
<1> QED BY <1>1, <1>2, SelfKeyed

\* The first row of a page.
Start(n) == (n - 1) * PageSize

LEMMA StartsFollow ==
  ASSUME NEW n \in Nat \ {0}
  PROVE  Start(n) \in Nat /\ Start(n + 1) = Start(n) + PageSize /\ n + 1 \in Nat \ {0}
<1>1. PageSize \in Nat BY PlaybackAssumption
<1>2. PICK m \in Nat : m = n - 1 OBVIOUS
<1>3. m * PageSize \in Nat /\ (m + 1) * PageSize = m * PageSize + PageSize BY <1>1
<1>4. n + 1 - 1 = m + 1 BY <1>2
<1> QED BY <1>2, <1>3, <1>4 DEF Start

\* A page holds the rows of its places, and is full while there are enough.
LEMMA PagesHold ==
  ASSUME row \in [ClipIds -> RowStates], NEW n \in Nat \ {0}
  PROVE  /\ PageOf(n) \in Seq(Items)
         /\ Start(n) + PageSize <= Cardinality(Listed) => Len(PageOf(n)) = PageSize
         /\ Start(n) <= Cardinality(Listed) /\ Cardinality(Listed) < Start(n) + PageSize
              => Len(PageOf(n)) = Cardinality(Listed) - Start(n)
         /\ \A c \in Listed : Start(n) < Rank(c) /\ Rank(c) <= Start(n) + PageSize
              => \E i \in DOMAIN PageOf(n) : PageOf(n)[i] = [clip |-> c, state |-> row[c]]
<1>1. PICK L \in SUBSET ClipIds : L = Listed BY RowsListed
<1>2. /\ IsFiniteSet(L) /\ Keyed(L, Self) /\ Cardinality(L) \in Nat
      /\ \A c \in ClipIds : Rank(c) = PlaceIn(L, Self, c) + 1
  BY <1>1, RowsListed
<1>3. PICK from \in Nat : from = Start(n) BY StartsFollow
<1>4. PICK to \in Nat : to = from + PageSize /\ from <= to BY PlaybackAssumption
<1> DEFINE D == {c \in L : from <= PlaceIn(L, Self, c) /\ PlaceIn(L, Self, c) < to}
           size == Cardinality(D)
           at(r) == CHOOSE c \in L : Rank(c) = r
           page == PageOf(n)
<1>5. \A c \in L : PlaceIn(L, Self, c) \in Nat /\ PlaceIn(L, Self, c) < Cardinality(L)
  BY <1>2, PlacesGrow
<1>6. D = {c \in Listed : from < Rank(c) /\ Rank(c) <= from + PageSize}
  BY <1>1, <1>2, <1>4, <1>5
<1>7. /\ size \in Nat /\ size <= to - from
      /\ to <= Cardinality(L) => size = to - from
      /\ from <= Cardinality(L) /\ Cardinality(L) < to => size = Cardinality(L) - from
      /\ Cardinality(L) < from => size = 0
  BY <1>2, <1>4, PlacesAreFull
<1>8. page = [i \in 1 .. size |-> [clip |-> at(from + i), state |-> row[at(from + i)]]]
  BY <1>1, <1>3, <1>6 DEF PageOf, Start
<1> HIDE DEF page, D
<1>9. ASSUME NEW i \in 1 .. size PROVE at(from + i) \in L /\ Rank(at(from + i)) = from + i
  <2>1. from + i - 1 \in Nat /\ from + i - 1 < Cardinality(L) BY <1>2, <1>4, <1>7
  <2>2. PICK c \in L : PlaceIn(L, Self, c) = from + i - 1
    BY <1>2, <2>1, PlacesAreTaken
  <2>3. Rank(c) = from + i BY <1>2, <2>2
  <2> QED BY <2>3
<1> HIDE DEF at
<1>10. page \in Seq(Items)
  <2>1. \A i \in 1 .. size : [clip |-> at(from + i), state |-> row[at(from + i)]] \in Items
    BY <1>9 DEF Items
  <2> QED BY <1>7, <1>8, <2>1
<1>11. Len(page) = size BY <1>7, <1>8
<1>12. ASSUME NEW c \in L, from < Rank(c), Rank(c) <= from + PageSize
       PROVE  \E i \in DOMAIN page : page[i] = [clip |-> c, state |-> row[c]]
  <2>1. PlaceIn(L, Self, c) \in Nat /\ Rank(c) = PlaceIn(L, Self, c) + 1 BY <1>2, <1>5
  <2>2. PICK i \in Nat : Rank(c) = from + i /\ 1 <= i BY <1>12, <2>1
  <2>3. i <= size
    <3>1. PlaceIn(L, Self, c) < Cardinality(L) BY <1>5
    <3>2. i <= to - from /\ from + i <= Cardinality(L) BY <1>2, <1>4, <1>12, <2>1, <2>2, <3>1
    <3> QED BY <1>2, <1>4, <1>7, <2>2, <3>2
  <2>4. i \in 1 .. size BY <1>7, <2>2, <2>3
  <2>5. at(from + i) = c
    <3>1. at(from + i) \in L /\ Rank(at(from + i)) = Rank(c) BY <1>9, <2>2, <2>4
    <3>2. PlaceIn(L, Self, at(from + i)) = PlaceIn(L, Self, c) BY <1>2, <1>5, <3>1
    <3> QED BY <1>2, <3>1, <3>2, PlacesDiffer
  <2>6. DOMAIN page = 1 .. size /\ page[i] = [clip |-> c, state |-> row[c]]
    BY <1>8, <2>4, <2>5
  <2> QED BY <2>4, <2>6
<1>13. PageSize \in Nat /\ to - from = PageSize BY <1>4, PlaybackAssumption
<1>14. /\ from + PageSize <= Cardinality(L) => Len(page) = PageSize
       /\ from <= Cardinality(L) /\ Cardinality(L) < from + PageSize
            => Len(page) = Cardinality(L) - from
  BY <1>4, <1>7, <1>11, <1>13
<1> QED BY <1>1, <1>3, <1>10, <1>12, <1>14 DEF page

-----------------------------------------------------------------------------
(* Reading the catalog.                                                    *)

\* What is known when a page has come.
LEMMA PageComes ==
  ASSUME ListingInv, NEW k \in Calls, listing[k].page > 0
  PROVE  LET l     == listing[k]
             items == PageOf(l.page)
             got   == l.got \o items
             total == Cardinality(Listed)
         IN  /\ l \in Listings /\ l.page \in Nat \ {0} /\ l.home \in Collections
             /\ got \in Seq(Items) /\ total \in Nat
             /\ \A c \in l.steady : row[c] = "ready" /\ Home[c] = l.home
             /\ ~l.left =>
                  /\ Len(got) <= total
                  /\ Len(got) < total => Len(got) = Start(l.page + 1)
                  /\ \A c \in l.steady :
                       (\E i \in DOMAIN got : got[i] = [clip |-> c, state |-> "ready"])
                       \/ Len(got) < Rank(c)
<1>1. PICK l \in Listings : l = listing[k] BY DEF ListingInv
<1>2. /\ l.page \in Nat \ {0} /\ l.home \in Collections /\ l.got \in Seq(Items)
      /\ l.steady \subseteq ClipIds
  BY <1>1 DEF Listings, ListingInv, Reading
<1>3. PICK items \in Seq(Items) : items = PageOf(l.page)
  BY <1>2, PagesHold DEF ListingInv
<1>4. PICK got \in Seq(Items) : got = l.got \o items BY <1>2, <1>3, ConcatProperties
<1>5. /\ Len(got) = Len(l.got) + Len(items) /\ Len(l.got) \in Nat /\ Len(items) \in Nat
      /\ DOMAIN got = 1 .. Len(got)
      /\ DOMAIN l.got = 1 .. Len(l.got) /\ DOMAIN items = 1 .. Len(items)
      /\ \A i \in 1 .. Len(l.got) : got[i] = l.got[i]
      /\ \A i \in 1 .. Len(items) : got[Len(l.got) + i] = items[i]
  <2>1. \A i \in 1 .. Len(l.got) + Len(items) :
          got[i] = IF i <= Len(l.got) THEN l.got[i] ELSE items[i - Len(l.got)]
    BY <1>2, <1>3, <1>4, ConcatProperties
  <2>2. Len(got) = Len(l.got) + Len(items) BY <1>2, <1>3, <1>4, ConcatProperties
  <2>3. Len(l.got) \in Nat /\ Len(items) \in Nat /\ DOMAIN got = 1 .. Len(got)
        /\ DOMAIN l.got = 1 .. Len(l.got) /\ DOMAIN items = 1 .. Len(items)
    BY <1>2, <1>3, <1>4
  <2>4. \A i \in 1 .. Len(l.got) : got[i] = l.got[i] BY <2>1, <2>3
  <2>5. ASSUME NEW i \in 1 .. Len(items) PROVE got[Len(l.got) + i] = items[i]
    <3>1. /\ Len(l.got) + i \in 1 .. Len(l.got) + Len(items)
          /\ ~(Len(l.got) + i <= Len(l.got)) /\ (Len(l.got) + i) - Len(l.got) = i
      BY <2>3
    <3> QED BY <2>1, <3>1
  <2> QED BY <2>2, <2>3, <2>4, <2>5
<1>6. \A c \in l.steady : row[c] = "ready" /\ Home[c] = l.home
  BY <1>1, <1>2 DEF ListingInv, Reading
<1>7. PICK total \in Nat : total = Cardinality(Listed) BY RowsListed DEF ListingInv
<1>8. ASSUME ~l.left
      PROVE  /\ Len(got) <= total
             /\ Len(got) < total => Len(got) = Start(l.page + 1)
             /\ \A c \in l.steady :
                  (\E i \in DOMAIN got : got[i] = [clip |-> c, state |-> "ready"])
                  \/ Len(got) < Rank(c)
  <2>1. /\ Len(l.got) = Start(l.page) /\ Len(l.got) <= total
        /\ \A c \in l.steady : Shown(l, c) \/ Len(l.got) < Rank(c)
    <3>1. OnTheWay(l, Listed) BY <1>1, <1>2, <1>8 DEF ListingInv, Reading
    <3>2. \A c \in l.steady : Cardinality({d \in Listed : d < c}) \in Nat
      <4>1. TAKE c \in l.steady
      <4>2. PICK D \in SUBSET ClipIds : D = {d \in Listed : d < c} BY DEF Listed
      <4>3. IsFiniteSet(D) BY FS_Subset, PlaybackAssumption
      <4>4. Cardinality(D) \in Nat BY <4>3, FS_CardinalityType
      <4> QED BY <4>2, <4>4
    <3>3. ASSUME NEW c \in l.steady PROVE Shown(l, c) \/ Len(l.got) < Rank(c)
      <4>1. Shown(l, c) \/ Len(l.got) <= Cardinality({d \in Listed : d < c})
        BY <3>1 DEF OnTheWay
      <4>2. PICK n \in Nat : n = Cardinality({d \in Listed : d < c}) BY <3>2
      <4>3. Rank(c) = n + 1 BY <4>2 DEF Rank
      <4> QED BY <1>5, <4>1, <4>2, <4>3
    <3>4. Len(l.got) = Start(l.page) /\ Len(l.got) <= total
      BY <1>7, <3>1 DEF OnTheWay, Start
    <3> QED BY <3>3, <3>4
  <2>2. /\ Start(l.page) + PageSize <= total => Len(items) = PageSize
        /\ Start(l.page) <= total /\ total < Start(l.page) + PageSize
             => Len(items) = total - Start(l.page)
    BY <1>2, <1>3, <1>7, PagesHold DEF ListingInv
  <2>3. PageSize \in Nat /\ Start(l.page) \in Nat /\ Start(l.page + 1) = Start(l.page) + PageSize
    BY <1>2, StartsFollow, PlaybackAssumption
  <2>4. \/ Len(got) = Start(l.page) + PageSize /\ Len(got) <= total
        \/ Len(got) = total /\ Len(got) < Start(l.page) + PageSize
    <3>1. Len(got) = Start(l.page) + Len(items) /\ Len(items) \in Nat BY <1>5, <2>1
    <3>2. Start(l.page) <= total /\ total \in Nat BY <1>7, <2>1
    <3>3. CASE Start(l.page) + PageSize <= total
      <4>1. Len(items) = PageSize BY <2>2, <3>3
      <4> QED BY <2>3, <3>1, <3>3, <4>1
    <3>4. CASE total < Start(l.page) + PageSize
      <4>1. Len(items) = total - Start(l.page) BY <2>2, <3>2, <3>4
      <4>2. Len(got) = total BY <2>3, <3>1, <3>2, <4>1
      <4> QED BY <3>4, <4>2
    <3> QED BY <2>3, <3>2, <3>3, <3>4
  <2>5. ASSUME NEW c \in l.steady
        PROVE  (\E i \in DOMAIN got : got[i] = [clip |-> c, state |-> "ready"])
               \/ Len(got) < Rank(c)
    <3>1. CASE Shown(l, c)
      <4>1. PICK i \in 1 .. Len(l.got) : l.got[i] = [clip |-> c, state |-> "ready"]
        BY <1>5, <3>1 DEF Shown
      <4>2. i \in DOMAIN got BY <1>5
      <4> QED BY <1>5, <4>1, <4>2
    <3>2. CASE Start(l.page) < Rank(c) /\ Rank(c) <= Len(got)
      <4>1. c \in Listed BY <1>2, <1>6 DEF Listed
      <4>2. PICK r \in Nat : r = Rank(c)
        BY <4>1, RowsListed, PlacesGrow DEF ListingInv
      <4>3. r <= Start(l.page) + PageSize BY <2>3, <2>4, <3>2, <4>2, <1>7
      <4>4. \E i \in DOMAIN items : items[i] = [clip |-> c, state |-> row[c]]
        BY <1>2, <1>3, <3>2, <4>1, <4>2, <4>3, PagesHold DEF ListingInv
      <4>5. PICK i \in 1 .. Len(items) : items[i] = [clip |-> c, state |-> "ready"]
        BY <1>5, <1>6, <4>4
      <4>6. Len(l.got) + i \in DOMAIN got BY <1>5
      <4> QED BY <1>5, <4>5, <4>6
    <3>3. PICK r \in Nat : r = Rank(c)
      <4>1. c \in Listed BY <1>2, <1>6 DEF Listed
      <4> QED BY <4>1, RowsListed, PlacesGrow DEF ListingInv
    <3> QED BY <1>5, <2>1, <3>1, <3>2, <3>3
  <2>6. Len(got) < total => Len(got) = Start(l.page + 1) BY <2>3, <2>4
  <2>7. Len(got) <= total BY <2>4
  <2> QED BY <2>5, <2>6, <2>7
<1> QED BY <1>1, <1>2, <1>3, <1>4, <1>6, <1>7, <1>8

\* What a listing that is complete offers to the history.
LEMMA ListingEnds ==
  ASSUME ListingInv, NEW k \in Calls, listing[k].page > 0,
         Len(listing[k].got \o PageOf(listing[k].page)) >= Cardinality(Listed)
  PROVE  LET l     == listing[k]
             known == Members(SubSeq(l.got \o PageOf(l.page), 1, Cardinality(Listed)))
             cands == Candidates(known, l.home)
         IN  /\ cands \in SUBSET ClipIds
             /\ ~l.left => l.steady \subseteq cands
<1>1. PICK l \in Listings : l = listing[k] BY DEF ListingInv
<1>2. PICK got \in Seq(Items) : got = l.got \o PageOf(l.page) BY <1>1, PageComes
<1>3. PICK total \in Nat : total = Cardinality(Listed) /\ total <= Len(got)
  BY <1>1, <1>2, PageComes
<1> DEFINE known == Members(SubSeq(got, 1, total))
           cands == Candidates(known, l.home)
<1>4. Len(got) \in Nat /\ DOMAIN got = 1 .. Len(got) /\ \A i \in 1 .. Len(got) : got[i] \in Items
  <2>1. Len(got) \in Nat /\ DOMAIN got = 1 .. Len(got) BY <1>2, LenProperties
  <2>2. \A i \in 1 .. Len(got) : got[i] \in Items BY <1>2, ElementOfSeq
  <2> QED BY <2>1, <2>2
<1>5. \A i \in 1 .. total : got[i] \in Items BY <1>3, <1>4
<1>6. PICK cut \in Seq(Items) :
        cut = SubSeq(got, 1, total) /\ Len(cut) = total /\ \A i \in 1 .. total : cut[i] = got[i]
  <2>1. /\ SubSeq(got, 1, total) \in Seq(Items)
        /\ Len(SubSeq(got, 1, total)) = IF 1 <= total THEN total - 1 + 1 ELSE 0
        /\ \A i \in 1 .. total - 1 + 1 : SubSeq(got, 1, total)[i] = got[1 + i - 1]
    BY <1>3, <1>5, SubSeqProperties
  <2>2. total - 1 + 1 = total /\ \A i \in 1 .. total : 1 + i - 1 = i BY <1>3
  <2>3. Len(SubSeq(got, 1, total)) = total BY <1>3, <2>1, <2>2
  <2>4. \A i \in 1 .. total : SubSeq(got, 1, total)[i] = got[i] BY <1>3, <2>1, <2>2
  <2> QED BY <2>1, <2>3, <2>4
<1>7. known \subseteq Items /\ \A i \in 1 .. total : got[i] \in known
  <2>1. DOMAIN cut = 1 .. total BY <1>6, LenProperties
  <2>2. \A i \in 1 .. total : cut[i] \in Items BY <1>5, <1>6
  <2>3. known = {cut[i] : i \in 1 .. total} BY <1>6, <2>1 DEF Members
  <2> HIDE DEF known
  <2> QED BY <1>6, <2>2, <2>3
<1> HIDE DEF known
<1>8. cands \in SUBSET ClipIds BY <1>7 DEF Candidates, Items
<1>9. ASSUME ~l.left, NEW c \in l.steady PROVE c \in cands
  <2>1. row[c] = "ready" /\ Home[c] = l.home /\ c \in ClipIds
    <3>1. row[c] = "ready" /\ Home[c] = l.home BY <1>1, PageComes
    <3>2. l.steady \in SUBSET ClipIds BY <1>1 DEF Listings
    <3> QED BY <3>1, <3>2
  <2>2. Len(got) = total
    <3>1. Len(got) <= total BY <1>1, <1>2, <1>3, <1>9, PageComes
    <3> QED BY <1>3, <1>4, <3>1
  <2>3. c \in Listed BY <2>1 DEF Listed
  <2>4. ~(Len(got) < Rank(c))
    BY <1>3, <2>1, <2>2, <2>3, RowsListed, PlacesGrow DEF ListingInv
  <2>5. PICK i \in DOMAIN got : got[i] = [clip |-> c, state |-> "ready"]
    BY <1>1, <1>2, <1>9, <2>4, PageComes
  <2>6. [clip |-> c, state |-> "ready"] \in known BY <1>4, <1>7, <2>2, <2>5
  <2> DEFINE item == [clip |-> c, state |-> "ready"]
             playable == {g \in known : Home[g.clip] = l.home /\ g.state \in {"ready", "stale"}}
             ready == {g \in playable : g.state = "ready"}
  <2>7. item.clip = c /\ item.state = "ready" OBVIOUS
  <2>8. item \in ready BY <2>1, <2>6, <2>7
  <2>9. cands = {g.clip : g \in ready} BY <2>8 DEF Candidates
  <2> HIDE DEF ready, item
  <2> QED BY <2>7, <2>8, <2>9
<1> QED BY <1>1, <1>2, <1>3, <1>8, <1>9 DEF known

LEMMA NoListingType == NoListing \in Listings /\ NoListing.page = 0
<1>1. <<>> \in Seq(Items) BY EmptySeq
<1> QED BY <1>1 DEF NoListing, Listings, Modes

\* While the rows stay, a listing is changed in place.
LEMMA ListingKept ==
  ASSUME ListingInv, row' = row, NEW k \in Calls, NEW l \in Listings,
         l.page > 0 => Reading(l, row, Listed), listing' = [listing EXCEPT ![k] = l]
  PROVE  ListingInv'
<1>1. /\ listing \in [Calls -> Listings] /\ row \in [ClipIds -> RowStates]
      /\ \A j \in Calls : listing[j].page > 0 => Reading(listing[j], row, Listed)
  BY DEF ListingInv
<1>2. listing' \in [Calls -> Listings]
      /\ \A j \in Calls : listing'[j] = l \/ listing'[j] = listing[j]
  BY <1>1
<1>3. Listed' = Listed BY DEF Listed
<1>4. ASSUME NEW j \in Calls, listing'[j].page > 0
      PROVE  Reading(listing'[j], row', Listed')
  BY <1>1, <1>2, <1>3, <1>4
<1> QED BY <1>1, <1>2, <1>4 DEF ListingInv

LEMMA OpenKeeps ==
  ASSUME ListingInv, NEW k \in Calls, Open(k)
  PROVE  ListingInv'
<1>1. PICK c \in Collections, mode \in Modes, op \in {"select", "dry"} :
        listing' = [listing EXCEPT ![k] =
          [NoListing EXCEPT !.page = 1, !.home = c, !.op = op, !.mode = mode,
                            !.steady = {d \in ClipIds : row[d] = "ready" /\ Home[d] = c}]]
  BY DEF Open
<1>2. PICK l : l = [NoListing EXCEPT !.page = 1, !.home = c, !.op = op, !.mode = mode,
                            !.steady = {d \in ClipIds : row[d] = "ready" /\ Home[d] = c}]
  OBVIOUS
<1>3. /\ l \in Listings /\ l.page = 1 /\ l.home = c /\ l.got = <<>>
      /\ l.steady = {d \in ClipIds : row[d] = "ready" /\ Home[d] = c}
  <2>1. NoListing \in Listings /\ NoListing.got = <<>> BY NoListingType DEF NoListing
  <2>2. l \in Listings BY <1>2, <2>1 DEF Listings
  <2> QED BY <1>2, <2>1, <2>2 DEF Listings
<1>4. Reading(l, row, Listed)
  <2>1. Len(l.got) = 0 BY <1>3
  <2>2. (l.page - 1) * PageSize = 0 BY <1>3, PlaybackAssumption
  <2>3. Cardinality(Listed) \in Nat BY RowsListed DEF ListingInv
  <2>4. ASSUME NEW d \in l.steady PROVE 0 <= Cardinality({e \in Listed : e < d})
    <3>1. d \in ClipIds /\ d \in Listed BY <1>3 DEF Listed
    <3>2. Rank(d) = PlaceIn(Listed, Self, d) + 1 /\ PlaceIn(Listed, Self, d) \in Nat
      BY <3>1, RowsListed, PlacesGrow DEF ListingInv
    <3>3. Cardinality({e \in Listed : e < d}) = PlaceIn(Listed, Self, d)
      <4>1. PICK L \in SUBSET ClipIds : L = Listed BY DEF Listed
      <4> QED BY <3>1, <4>1, SelfKeyed
    <3> QED BY <3>2, <3>3
  <2>5. OnTheWay(l, Listed) BY <2>1, <2>2, <2>3, <2>4 DEF OnTheWay
  <2> QED BY <1>3, <2>5 DEF Reading
<1>5. row' = row BY DEF Open
<1> QED BY <1>1, <1>2, <1>3, <1>4, <1>5, ListingKept

LEMMA FetchKeeps ==
  ASSUME ListingInv, NEW k \in Calls, Fetch(k)
  PROVE  ListingInv'
<1>1. PICK l \in Listings : l = listing[k] /\ l.page > 0 BY DEF Fetch, ListingInv
<1>2. PICK got \in Seq(Items) : got = l.got \o PageOf(l.page) BY <1>1, PageComes
<1>3. row' = row BY DEF Fetch
<1>4. CASE listing' = [listing EXCEPT ![k] = NoListing]
  <2>1. ~(NoListing.page > 0) BY NoListingType
  <2> QED BY <1>3, <1>4, <2>1, NoListingType, ListingKept
<1>5. CASE listing' # [listing EXCEPT ![k] = NoListing]
  <2>1. /\ ~(Len(got) >= Cardinality(Listed))
        /\ listing' = [listing EXCEPT ![k] = [l EXCEPT !.page = @ + 1, !.got = got]]
    BY <1>1, <1>2, <1>5 DEF Fetch
  <2>2. PICK m : m = [l EXCEPT !.page = @ + 1, !.got = got] OBVIOUS
  <2>3. m \in Listings
    <3>1. l.page + 1 \in Nat BY DEF Listings
    <3> QED BY <1>2, <2>2, <3>1 DEF Listings
  <2>4. /\ m.page = l.page + 1 /\ m.got = got /\ m.home = l.home /\ m.steady = l.steady
        /\ m.left = l.left
    BY <1>1, <2>2 DEF Listings
  <2>5. l.page \in Nat \ {0} /\ l.home \in Collections
        /\ \A c \in l.steady : row[c] = "ready" /\ Home[c] = l.home
    BY <1>1, PageComes
  <2>6. Cardinality(Listed) \in Nat BY RowsListed DEF ListingInv
  <2>7. Len(got) \in Nat /\ Len(got) < Cardinality(Listed)
    <3>1. ~(Len(got) >= Cardinality(Listed)) BY <2>1
    <3>2. Len(got) \in Nat BY <1>2, LenProperties
    <3> QED BY <2>6, <3>1, <3>2
  <2>8. ASSUME ~l.left PROVE OnTheWay(m, Listed)
    <3>1. Len(got) = Start(l.page + 1) BY <1>1, <1>2, <2>7, <2>8, PageComes
    <3>2. Len(m.got) = (m.page - 1) * PageSize BY <2>4, <3>1 DEF Start
    <3>3. \A c \in l.steady :
            (\E i \in DOMAIN got : got[i] = [clip |-> c, state |-> "ready"])
            \/ Len(got) < Rank(c)
      BY <1>1, <1>2, <2>8, PageComes
    <3>4. ASSUME NEW c \in m.steady
          PROVE  Shown(m, c) \/ Len(m.got) <= Cardinality({d \in Listed : d < c})
      <4>1. CASE \E i \in DOMAIN got : got[i] = [clip |-> c, state |-> "ready"]
        BY <2>4, <4>1 DEF Shown
      <4>2. CASE Len(got) < Rank(c)
        <5>1. c \in ClipIds BY <1>1, <2>4 DEF Listings
        <5>2. PICK L \in SUBSET ClipIds : L = Listed BY DEF Listed
        <5>3. c \in L BY <2>4, <2>5, <5>1, <5>2 DEF Listed
        <5>4. Cardinality({d \in L : d < c}) \in Nat BY <5>1, <5>3, SelfKeyed, PlacesGrow
        <5> QED BY <2>4, <2>7, <4>2, <5>2, <5>4 DEF Rank
      <4> QED BY <2>4, <3>3, <4>1, <4>2
    <3> QED BY <2>4, <2>6, <2>7, <3>2, <3>4 DEF OnTheWay
  <2>9. Reading(m, row, Listed) BY <2>4, <2>5, <2>8 DEF Reading
  <2> QED BY <1>3, <2>1, <2>2, <2>3, <2>9, ListingKept
<1> QED BY <1>4, <1>5

LEMMA ChangeKeeps ==
  ASSUME ListingInv, ChangeRow
  PROVE  ListingInv'
<1>1. PICK c \in ClipIds, state \in RowStates \ {"absent"} :
        /\ state # row[c]
        /\ row' = [row EXCEPT ![c] = state]
        /\ listing' = [k \in Calls |->
             [listing[k] EXCEPT !.steady = IF state = "ready" THEN @ ELSE @ \ {c},
                                !.left = @ \/ state = "deleted"]]
  BY DEF ChangeRow
<1>2. /\ listing \in [Calls -> Listings] /\ row \in [ClipIds -> RowStates]
      /\ \A k \in Calls : listing[k].page > 0 => Reading(listing[k], row, Listed)
  BY DEF ListingInv
<1>3. row' \in [ClipIds -> RowStates] /\ row'[c] = state
      /\ \A d \in ClipIds \ {c} : row'[d] = row[d]
  BY <1>1, <1>2
<1>4. ASSUME NEW k \in Calls
      PROVE  /\ listing'[k] \in Listings
             /\ listing'[k].page = listing[k].page /\ listing'[k].home = listing[k].home
             /\ listing'[k].got = listing[k].got
             /\ listing'[k].steady = IF state = "ready" THEN listing[k].steady
                                     ELSE listing[k].steady \ {c}
             /\ listing'[k].left = (listing[k].left \/ state = "deleted")
  <2>1. PICK l \in Listings : l = listing[k] BY <1>2
  <2>2. PICK m : m = [l EXCEPT !.steady = IF state = "ready" THEN @ ELSE @ \ {c},
                               !.left = @ \/ state = "deleted"]
    OBVIOUS
  <2>3. listing'[k] = m BY <1>1, <2>1, <2>2
  <2>4. m \in Listings BY <2>1, <2>2 DEF Listings
  <2>5. /\ m.page = l.page /\ m.home = l.home /\ m.got = l.got
        /\ m.steady = IF state = "ready" THEN l.steady ELSE l.steady \ {c}
        /\ m.left = (l.left \/ state = "deleted")
    BY <2>1, <2>2 DEF Listings
  <2> QED BY <2>1, <2>3, <2>4, <2>5
<1>5. PICK old \in SUBSET ClipIds : old = Listed BY DEF Listed
<1>6. PICK new \in SUBSET ClipIds : new = Listed' BY <1>3 DEF Listed
<1>7. state # "deleted" => old \in SUBSET new
  BY <1>1, <1>2, <1>3, <1>5, <1>6 DEF Listed
<1>8. ASSUME NEW k \in Calls, listing'[k].page > 0
      PROVE  Reading(listing'[k], row', Listed')
  <2>1. PICK l \in Listings : l = listing[k] /\ Reading(l, row, Listed) BY <1>2, <1>4, <1>8
  <2>2. PICK m \in Listings : m = listing'[k] BY <1>4, <1>8
  <2>3. /\ m.page = l.page /\ m.home = l.home /\ m.got = l.got
        /\ m.steady = IF state = "ready" THEN l.steady ELSE l.steady \ {c}
        /\ m.left = (l.left \/ state = "deleted")
    BY <1>4, <2>1, <2>2
  <2>4. m.home \in Collections /\ \A d \in m.steady : row[d] = "ready" /\ Home[d] = m.home
    BY <2>1, <2>3 DEF Reading
  <2>5. m.steady \in SUBSET ClipIds BY DEF Listings
  <2>6. \A d \in m.steady : d # c
    BY <1>1, <2>3, <2>4
  <2>7. \A d \in m.steady : row'[d] = "ready" /\ Home[d] = m.home
    BY <1>3, <2>4, <2>5, <2>6
  <2>8. ASSUME ~m.left
        PROVE  OnTheWay(m, new)
    <3>1. OnTheWay(l, old) /\ state # "deleted" BY <1>5, <2>1, <2>3, <2>8 DEF Reading, Listings
    <3>2. /\ Len(m.got) = (m.page - 1) * PageSize /\ Len(m.got) <= Cardinality(old)
          /\ Len(m.got) \in Nat
      BY <1>5, <2>3, <3>1, LenProperties DEF OnTheWay, Listings
    <3>3. Cardinality(old) <= Cardinality(new) /\ Cardinality(old) \in Nat
          /\ Cardinality(new) \in Nat
      BY <1>7, <3>1, SelfKeyed, FS_Subset
    <3>4. ASSUME NEW d \in m.steady
          PROVE  Shown(m, d) \/ Len(m.got) <= Cardinality({e \in new : e < d})
      <4>1. Shown(l, d) \/ Len(l.got) <= Cardinality({e \in old : e < d})
        BY <2>3, <3>1 DEF OnTheWay
      <4>2. CASE Shown(l, d) BY <2>3, <4>2 DEF Shown
      <4>3. CASE Len(l.got) <= Cardinality({e \in old : e < d})
        <5>1. d \in ClipIds /\ d \in old BY <1>5, <2>4, <2>5 DEF Listed
        <5>2. /\ Cardinality({e \in old : e < d}) = PlaceIn(old, Self, d)
              /\ Cardinality({e \in new : e < d}) = PlaceIn(new, Self, d)
          BY <5>1, SelfKeyed
        <5>3. /\ PlaceIn(old, Self, d) \in Nat /\ PlaceIn(new, Self, d) \in Nat
              /\ PlaceIn(old, Self, d) <= PlaceIn(new, Self, d)
          BY <1>7, <3>1, <5>1, PlacesOnlyGrow
        <5> QED BY <2>3, <3>2, <4>3, <5>2, <5>3
      <4> QED BY <4>1, <4>2, <4>3
    <3>5. Len(m.got) <= Cardinality(new) BY <3>2, <3>3
    <3> QED BY <3>2, <3>4, <3>5 DEF OnTheWay
  <2> QED BY <1>6, <2>2, <2>4, <2>7, <2>8 DEF Reading
<1>9. listing' \in [Calls -> Listings]
  <2>1. PICK f : f = listing' OBVIOUS
  <2>2. f = [k \in Calls |-> f[k]] BY <1>1, <2>1
  <2>3. \A k \in Calls : f[k] \in Listings BY <1>4, <2>1
  <2> QED BY <2>1, <2>2, <2>3
<1> QED BY <1>3, <1>8, <1>9 DEF ListingInv

\* Steps that leave the catalog alone and give up listings.
LEMMA RestKeeps ==
  ASSUME ListingInv, row' = row,
         \/ listing' = listing
         \/ listing' = [k \in Calls |-> NoListing]
         \/ \E k \in Calls : listing' = [listing EXCEPT ![k] = NoListing]
  PROVE  ListingInv'
<1>1. /\ listing \in [Calls -> Listings] /\ row \in [ClipIds -> RowStates]
      /\ \A j \in Calls : listing[j].page > 0 => Reading(listing[j], row, Listed)
  BY DEF ListingInv
<1>2. NoListing \in Listings /\ ~(NoListing.page > 0) BY NoListingType
<1>3. Listed' = Listed BY DEF Listed
<1>4. PICK to \in [Calls -> Listings] :
        to = listing' /\ \A j \in Calls : to[j] = NoListing \/ to[j] = listing[j]
  BY <1>1, <1>2
<1>5. ASSUME NEW j \in Calls, to[j].page > 0
      PROVE  Reading(to[j], row, Listed)
  BY <1>1, <1>2, <1>4, <1>5
<1> QED BY <1>1, <1>3, <1>4, <1>5 DEF ListingInv

LEMMA ListingStep ==
  ASSUME ListingInv, [PlayNext]_allVars
  PROVE  ListingInv'
<1>1. ASSUME NEW k \in Calls,
             Open(k) \/ Fetch(k) \/ FetchFails(k) \/ OtherCall(k) \/ (Step(k) /\ UNCHANGED playVars)
      PROVE  ListingInv'
  <2>1. CASE Open(k) BY <2>1, OpenKeeps
  <2>2. CASE Fetch(k) BY <2>2, FetchKeeps
  <2>3. CASE FetchFails(k) BY <2>3, RestKeeps DEF FetchFails
  <2>4. CASE OtherCall(k) \/ (Step(k) /\ UNCHANGED playVars)
    BY <2>4, RestKeeps DEF OtherCall, playVars
  <2> QED BY <1>1, <2>1, <2>2, <2>3, <2>4
<1>2. CASE ChangeRow BY <1>2, ChangeKeeps
<1>3. CASE Restart /\ listing' = [k \in Calls |-> NoListing] /\ UNCHANGED <<row, edits>>
  BY <1>3, RestKeeps
<1>4. CASE (NextDay /\ UNCHANGED playVars) \/ UNCHANGED allVars
  BY <1>4, RestKeeps DEF playVars, allVars
<1> QED BY <1>1, <1>2, <1>3, <1>4 DEF PlayNext

LEMMA ListingStart == PlayInit => ListingInv
<1> SUFFICES ASSUME PlayInit PROVE ListingInv OBVIOUS
<1>1. row \in [ClipIds -> RowStates] BY DEF PlayInit, RowStates
<1>2. listing \in [Calls -> Listings] /\ \A k \in Calls : ~(listing[k].page > 0)
  BY NoListingType DEF PlayInit
<1> QED BY <1>1, <1>2 DEF ListingInv

\* Every listing of the catalog knows what ListingInv says of it, for any number of
\* clips, any page size and any changes of the catalog.
THEOREM ListingInvariant == PlaySpec => []ListingInv
BY ListingStart, ListingStep, PTL DEF PlaySpec

\* What a complete listing asks the history for is a selection the history knows.
LEMMA FetchAsks ==
  ASSUME ListingInv, NEW k \in Calls, Fetch(k)
  PROVE  Requests(k) \/ UNCHANGED vars
<1>1. PICK l \in Listings : l = listing[k] /\ l.page > 0 BY DEF Fetch, ListingInv
<1> DEFINE got   == l.got \o PageOf(l.page)
           known == Members(SubSeq(got, 1, Cardinality(Listed)))
           cands == Candidates(known, l.home)
<1>2. CASE Len(got) >= Cardinality(Listed)
  <2>1. AskSelect(k, l.home, InOrder(cands, l.mode), l.mode # "random", l.op)
    BY <1>1, <1>2 DEF Fetch
  <2>2. PICK clips \in SUBSET ClipIds : clips = cands BY <1>1, <1>2, ListingEnds
  <2>3. l.mode \in Modes /\ l.op \in {"select", "dry"} BY DEF Listings
  <2>4. InOrder(clips, l.mode) \in Offers BY <2>3, OffersAssumption
  <2>5. l.home \in Collections BY <1>1, PageComes
  <2>6. PICK ordered \in BOOLEAN : ordered = (l.mode # "random") OBVIOUS
  <2> QED BY <2>1, <2>2, <2>3, <2>4, <2>5, <2>6 DEF Requests
<1>3. CASE ~(Len(got) >= Cardinality(Listed)) BY <1>1, <1>3 DEF Fetch
<1> QED BY <1>2, <1>3

\* The calls of the integration, with the candidates they find in the Worker's
\* catalog, are calls that PlaybackHistory allows: whatever is proved of every use of
\* the history holds where select_next_clip uses it.
THEOREM CallsUseTheHistory == PlaySpec => Spec
<1>1. PlayInit => Init BY DEF PlayInit
<1>2. ASSUME ListingInv, [PlayNext]_allVars PROVE [Next]_vars
  <2>1. ASSUME NEW k \in Calls,
               Open(k) \/ Fetch(k) \/ FetchFails(k) \/ OtherCall(k)
               \/ (Step(k) /\ UNCHANGED playVars)
        PROVE  [Next]_vars
    <3>1. CASE Open(k) \/ FetchFails(k) BY <3>1 DEF Open, FetchFails, vars
    <3>2. CASE Fetch(k) BY <1>2, <3>2, FetchAsks DEF Next
    <3>3. CASE OtherCall(k) BY <3>3 DEF OtherCall, Next, Requests
    <3>4. CASE Step(k) BY <3>4 DEF Next
    <3> QED BY <2>1, <3>1, <3>2, <3>3, <3>4
  <2>2. CASE Restart \/ NextDay BY <2>2 DEF Next
  <2>3. CASE ChangeRow \/ UNCHANGED allVars BY <2>3 DEF ChangeRow, allVars
  <2> QED BY <1>2, <2>1, <2>2, <2>3 DEF PlayNext
<1> QED BY <1>1, <1>2, ListingInvariant, PTL DEF PlaySpec, Spec

\* What a call that has read the catalog offers.
OffersReady(k) ==
  listing[k].page > 0 /\ call'[k].pc = "wait" /\ call[k].pc = "idle" /\ ~listing[k].left
    => listing[k].steady \subseteq Members(call'[k].offered)

LEMMA ReadyOffered ==
  ASSUME ListingInv, TypeOK, [PlayNext]_allVars, NEW k \in Calls
  PROVE  OffersReady(k)
<1> SUFFICES ASSUME listing[k].page > 0, call'[k].pc = "wait", call[k].pc = "idle",
                    ~listing[k].left
             PROVE  listing[k].steady \subseteq Members(call'[k].offered)
  BY DEF OffersReady
<1>1. call \in [Calls -> CallStates] BY DEF TypeOK
<1>2. call' # call BY <1>1
<1>3. Fetch(k)
  <2>1. ASSUME NEW j \in Calls, Open(j) \/ FetchFails(j) PROVE FALSE
    BY <1>2, <2>1 DEF Open, FetchFails, vars
  <2>2. ASSUME NEW j \in Calls, OtherCall(j) PROVE FALSE
    <3>1. j # k BY <2>2 DEF OtherCall
    <3>2. call'[k] = call[k]
      BY <1>1, <2>2, <3>1 DEF OtherCall, AskReset, AskDaily, Begin
    <3> QED BY <3>2
  <2>3. ASSUME NEW j \in Calls, Step(j) PROVE FALSE
    <3>1. call[j].pc # "idle" \/ lock = j
      BY <2>3 DEF Step, Rehearse, Claim, SelectNothing, Wipe, Saved, SaveRaises, Granted
    <3>2. j # k BY <3>1 DEF TypeOK
    <3>3. call'[k] = call[k]
      BY <1>1, <2>3, <3>2
      DEF Step, Rehearse, Claim, SelectNothing, Wipe, Saved, SaveRaises, Return
    <3> QED BY <3>3
  <2>4. ASSUME NEW j \in Calls, j # k, Fetch(j) PROVE FALSE
    <3>1. call' = call \/ \E to : call' = [call EXCEPT ![j] = to]
      BY <2>4 DEF Fetch, AskSelect, Begin, vars
    <3> QED BY <1>1, <2>4, <3>1
  <2>5. ~Restart /\ ~NextDay /\ ~ChangeRow /\ ~UNCHANGED allVars
    <3>1. ~Restart BY IdleType DEF Restart
    <3> QED BY <1>2, <3>1 DEF NextDay, ChangeRow, allVars, vars
  <2> QED BY <2>1, <2>2, <2>3, <2>4, <2>5 DEF PlayNext
<1>4. PICK l \in Listings : l = listing[k] /\ l.page > 0 /\ ~l.left BY DEF ListingInv
<1> DEFINE got   == l.got \o PageOf(l.page)
           known == Members(SubSeq(got, 1, Cardinality(Listed)))
           cands == Candidates(known, l.home)
<1>5. /\ Len(got) >= Cardinality(Listed)
      /\ AskSelect(k, l.home, InOrder(cands, l.mode), l.mode # "random", l.op)
  <2>1. CASE Len(got) >= Cardinality(Listed) BY <1>3, <1>4, <2>1 DEF Fetch
  <2>2. CASE ~(Len(got) >= Cardinality(Listed)) BY <1>2, <1>3, <1>4, <2>2 DEF Fetch, vars
  <2> QED BY <2>1, <2>2
<1>6. PICK clips \in SUBSET ClipIds : clips = cands /\ l.steady \subseteq clips
  BY <1>4, <1>5, ListingEnds
<1>7. call'[k].offered = InOrder(clips, l.mode)
  <2>1. call'[k] = [Idle EXCEPT !.pc = "wait", !.op = l.op, !.ids = {l.home},
                    !.offered = InOrder(clips, l.mode), !.ordered = (l.mode # "random")]
    BY <1>1, <1>5, <1>6 DEF AskSelect, Begin
  <2> QED BY <2>1 DEF Idle
<1>8. Members(InOrder(clips, l.mode)) = clips BY OrderHasAll
<1> QED BY <1>4, <1>6, <1>7, <1>8

\* A clip that is ready for as long as a call reads the catalog is offered to the
\* history, for any page size and any changes between two pages, unless a row leaves
\* the catalog meanwhile.
THEOREM ReadyClipsAreOffered == PlaySpec => ReadyClipIsOffered
<1>1. ListingInv /\ TypeOK /\ [PlayNext]_allVars => [\A k \in Calls : OffersReady(k)]_allVars
  BY ReadyOffered
<1>2. ReadyClipIsOffered <=> [][\A k \in Calls : OffersReady(k)]_allVars
  BY PTL DEF ReadyClipIsOffered, OffersReady
<1> QED BY <1>1, <1>2, ListingInvariant, CallsUseTheHistory, HistoryTypes, PTL DEF PlaySpec
=============================================================================
