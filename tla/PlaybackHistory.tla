--------------------------- MODULE PlaybackHistory ---------------------------
(***************************************************************************)
(* The integration's durable no-repeat history (history.py): one record    *)
(* per collection, claims made under an asyncio lock, a save that is       *)
(* awaited while the lock is held, the daily reset, the manual reset, and  *)
(* restarts of Home Assistant.                                             *)
(*                                                                         *)
(* A coroutine runs without interruption between two awaits, so a call is  *)
(* two steps: from the moment it gets the lock to the await of async_save, *)
(* and from the end of the save to its return.                             *)
(***************************************************************************)
EXTENDS Naturals, Sequences

CONSTANTS
  Collections,  \* collection IDs
  ClipIds,      \* clip IDs
  NoClip,       \* no clip at all
  Calls,        \* service calls and listener callbacks that can be in progress
  Free,         \* holder of the lock when nobody holds it
  Offers,       \* the lists of candidates a caller may pass
  Daily,        \* history_reset_mode is daily
  MaxRound,     \* bound: rounds of a collection
  MaxDay,       \* bound: local days
  MaxFaults     \* bound: saves that raise and restarts of Home Assistant

ASSUME HistoryAssumption ==
  /\ NoClip \notin ClipIds
  /\ Free \notin Calls
  /\ Offers \subseteq Seq(ClipIds)
  /\ Daily \in BOOLEAN
  /\ MaxRound \in Nat /\ MaxDay \in Nat /\ MaxFaults \in Nat

VARIABLES
  history,   \* _data: the records in memory
  stored,    \* what the Store would load
  lock,      \* who holds _lock
  call,      \* the calls in progress
  day,       \* the local day; period_start of a record is a day
  faults,    \* saves that raised and restarts so far
  ledger,    \* what callers were answered in the present round, per collection
  kept,      \* the ledger as of the last save, which every answer waits for
  heard      \* the round of the last answer, per collection

vars == <<history, stored, lock, call, day, faults, ledger, kept, heard>>

-----------------------------------------------------------------------------
(* Records.  A collection without a record behaves as one in round 1 with  *)
(* nothing played, except that resets pass it over.                        *)

Records == [known: BOOLEAN, period: Nat, round: Nat \ {0}, played: SUBSET ClipIds,
            pending: BOOLEAN]
NoRecord == [known |-> FALSE, period |-> 0, round |-> 1, played |-> {}, pending |-> FALSE]

\* Mutant: the reset forgets that answers carry on in a new round.
ResetSameRound(record) ==
  [record EXCEPT !.period = day, !.played = {}, !.pending = TRUE]

\* _reset_record
Reset(record) ==
  [record EXCEPT !.period = day, !.round = @ + 1, !.played = {}, !.pending = TRUE]

\* Mutant: records that were never reset before are passed over.
DueOnceReset(h) == {c \in Collections : Daily /\ h[c].round > 1 /\ h[c].period # day}

\* The collections _reconcile resets: the period has changed since the record
\* was written.
Due(h) == {c \in Collections : Daily /\ h[c].known /\ h[c].period # day}

Reconciled(h) == [c \in Collections |-> IF c \in Due(h) THEN Reset(h[c]) ELSE h[c]]

Members(s) == {s[i] : i \in DOMAIN s}

\* Mutant: as many marks as candidates end the round, whichever they are.
TurnAfterMarks(record, eligible) ==
  LET rest == eligible \ record.played
  IN  IF eligible # {} /\ (rest = {} \/ rest # eligible)
      THEN [round |-> record.round + 1, played |-> {}, rest |-> eligible, rolled |-> TRUE]
      ELSE [round |-> record.round, played |-> record.played, rest |-> rest, rolled |-> FALSE]

\* The round a selection plays in: marks of clips that are not eligible are
\* dropped, and when every eligible clip is marked a new round begins.
Turn(record, eligible) ==
  LET played == record.played \cap eligible
      rest   == eligible \ played
  IN  IF eligible # {} /\ rest = {}
      THEN [round |-> record.round + 1, played |-> {}, rest |-> eligible, rolled |-> TRUE]
      ELSE [round |-> record.round, played |-> played, rest |-> rest, rolled |-> FALSE]

\* remaining[0], or whatever the chooser returns.
Choices(offered, rest, ordered) ==
  IF ordered
  THEN {offered[i] : i \in {i \in DOMAIN offered :
                              /\ offered[i] \in rest
                              /\ \A j \in 1 .. i - 1 : offered[j] \notin rest}}
  ELSE rest

Claimed(record, turn, clip) ==
  [known |-> TRUE, period |-> day, round |-> turn.round,
   played |-> turn.played \cup {clip}, pending |-> FALSE]

-----------------------------------------------------------------------------
Ops == {"select", "dry", "reset", "daily"}
Idle == [pc |-> "idle", op |-> "dry", ids |-> {}, offered |-> <<>>, ordered |-> FALSE,
         clip |-> NoClip, round |-> 1, flag |-> FALSE]
CallStates ==
  [pc: {"idle", "wait", "saving"}, op: Ops, ids: SUBSET Collections,
   offered: Offers \cup {<<>>}, ordered: BOOLEAN, clip: ClipIds \cup {NoClip},
   round: Nat \ {0}, flag: BOOLEAN]

Pages == [shown: SUBSET ClipIds, lost: SUBSET ClipIds, blurred: BOOLEAN]
NoPage == [shown |-> {}, lost |-> {}, blurred |-> FALSE]

Init ==
  /\ history = [c \in Collections |-> NoRecord]
  /\ stored = history
  /\ lock = Free
  /\ call = [k \in Calls |-> Idle]
  /\ day = 1
  /\ faults = 0
  /\ ledger = [c \in Collections |-> NoPage]
  /\ kept = ledger
  /\ heard = [c \in Collections |-> 1]

\* A new page for the collections whose history is cleared.
Cleared(book, ids) ==
  [c \in Collections |-> IF c \in ids THEN [NoPage EXCEPT !.blurred = book[c].blurred]
                         ELSE book[c]]

\* async_select, async_reset and async_handle_daily_reset up to the lock.
Begin(k, request) ==
  /\ call[k].pc = "idle"
  /\ call' = [call EXCEPT ![k] = request]
  /\ UNCHANGED <<history, stored, lock, day, faults, ledger, kept, heard>>

AskSelect(k, c, offered, ordered, op) ==
  Begin(k, [Idle EXCEPT !.pc = "wait", !.op = op, !.ids = {c}, !.offered = offered,
                        !.ordered = ordered])

AskReset(k, ids) == Begin(k, [Idle EXCEPT !.pc = "wait", !.op = "reset", !.ids = ids])

\* The listener of the reset time; one callback at a time.
AskDaily(k) ==
  /\ Daily
  /\ \A other \in Calls : call[other].pc # "idle" => call[other].op # "daily"
  /\ Begin(k, [Idle EXCEPT !.pc = "wait", !.op = "daily"])

\* Mutant: nobody waits for the lock.
GrantedAtOnce(k, op) == call[k].pc = "wait" /\ call[k].op = op

\* The call has the lock.
Granted(k, op) == lock = Free /\ call[k].pc = "wait" /\ call[k].op = op

Return(k) == call' = [call EXCEPT ![k] = Idle]

\* A dry run works on a copy and returns.
Rehearse(k) ==
  /\ Granted(k, "dry")
  /\ Return(k)
  /\ UNCHANGED <<history, stored, lock, day, faults, ledger, kept, heard>>

\* A selection claims a clip in memory and starts the save.
Claim(k) ==
  /\ Granted(k, "select")
  /\ \E c \in call[k].ids :
       LET eligible == Members(call[k].offered)
           fresh    == Reconciled(history)
           turn     == Turn(fresh[c], eligible)
           pages    == Cleared(ledger, Due(history) \cup (IF turn.rolled THEN {c} ELSE {}))
       IN  /\ turn.round < MaxRound
           /\ \E clip \in Choices(call[k].offered, turn.rest, call[k].ordered) :
                /\ history' = [fresh EXCEPT ![c] = Claimed(@, turn, clip)]
                /\ call' = [call EXCEPT ![k].pc = "saving", ![k].clip = clip,
                              ![k].round = turn.round,
                              ![k].flag = turn.rolled \/ fresh[c].pending]
           /\ ledger' = [pages EXCEPT ![c].shown = @ \cap eligible,
                                      ![c].lost = @ \cap eligible]
  /\ lock' = k
  /\ UNCHANGED <<stored, day, faults, kept, heard>>

\* Nothing is eligible: only a reset that was due is saved.
SelectNothing(k) ==
  /\ Granted(k, "select")
  /\ call[k].offered = <<>>
  /\ history' = Reconciled(history)
  /\ ledger' = Cleared(ledger, Due(history))
  /\ IF Due(history) = {}
     THEN Return(k) /\ UNCHANGED lock
     ELSE lock' = k /\ call' = [call EXCEPT ![k].pc = "saving", ![k].ids = {}]
  /\ UNCHANGED <<stored, day, faults, kept, heard>>

\* async_reset and the daily callback: the records are reset in memory and the
\* save starts; with nothing to reset the call returns.
Wipe(k) ==
  /\ Granted(k, "reset") \/ Granted(k, "daily")
  /\ LET ids == IF call[k].op = "daily" THEN Due(history)
                ELSE {c \in call[k].ids : history[c].known}
     IN  /\ \A c \in ids : history[c].round < MaxRound
         /\ history' = [c \in Collections |->
                          IF c \in ids THEN Reset(history[c]) ELSE history[c]]
         /\ ledger' = Cleared(ledger, ids)
         /\ IF ids = {}
            THEN Return(k) /\ UNCHANGED lock
            ELSE lock' = k /\ call' = [call EXCEPT ![k].pc = "saving"]
  /\ UNCHANGED <<stored, day, faults, kept, heard>>

\* The claim in hand is for collection c.
Claims(k, c) == c \in call[k].ids /\ call[k].clip # NoClip

\* The mark of c's last claim counts today.
Counts(c) == Daily => history[c].period = day

Answered(k) ==
  [c \in Collections |->
     IF Claims(k, c)
     THEN [ledger[c] EXCEPT !.shown = IF Counts(c) THEN @ \cup {call[k].clip} ELSE @,
                            !.blurred = FALSE]
     ELSE ledger[c]]

Told(k) == [c \in Collections |-> IF Claims(k, c) THEN call[k].round ELSE heard[c]]

\* Mutant: the save is scheduled, not awaited.
SavedLater(k) ==
  /\ lock = k /\ call[k].pc = "saving"
  /\ lock' = Free
  /\ Return(k)
  /\ ledger' = Answered(k)
  /\ kept' = ledger'
  /\ heard' = Told(k)
  /\ UNCHANGED <<history, stored, day, faults>>

\* The save has ended: the caller gets its answer.
Saved(k) ==
  /\ lock = k /\ call[k].pc = "saving"
  /\ stored' = history
  /\ lock' = Free
  /\ Return(k)
  /\ ledger' = Answered(k)
  /\ kept' = ledger'
  /\ heard' = Told(k)
  /\ UNCHANGED <<history, day, faults>>

\* The clip of a claim whose caller never gets an answer.
Forgone ==
  [c \in Collections |->
     IF \E k \in Calls : lock = k /\ Claims(k, c)
     THEN [ledger[c] EXCEPT !.lost = IF Counts(c) THEN @ \cup {call[lock].clip} ELSE @,
                            !.blurred = TRUE]
     ELSE ledger[c]]

\* The save raises, before or after the file was replaced: the claim stays in
\* memory and the caller gets an error.
SaveRaises(k) ==
  /\ faults < MaxFaults
  /\ lock = k /\ call[k].pc = "saving"
  /\ ledger' = Forgone
  /\ \/ stored' = history /\ kept' = ledger'
     \/ UNCHANGED <<stored, kept>>
  /\ lock' = Free
  /\ Return(k)
  /\ faults' = faults + 1
  /\ UNCHANGED <<history, day, heard>>

\* Home Assistant stops, with or without the save that was under way, and
\* starts again: async_setup loads, reconciles and saves what it has reset.
Restart ==
  /\ faults < MaxFaults
  /\ \E saved \in BOOLEAN :
       LET file  == IF saved THEN history ELSE stored
           pages == IF saved THEN Forgone ELSE kept
       IN  /\ saved => lock # Free
           /\ \A c \in Due(file) : file[c].round < MaxRound
           /\ history' = Reconciled(file)
           /\ ledger' = Cleared(pages, Due(file))
  /\ stored' = history'
  /\ kept' = ledger'
  /\ lock' = Free
  /\ call' = [k \in Calls |-> Idle]
  /\ faults' = faults + 1
  /\ UNCHANGED <<day, heard>>

\* Midnight.  A callback that waits for the lock gets it before the next one.
NextDay ==
  /\ day < MaxDay
  /\ \A k \in Calls : call[k].pc # "idle" => call[k].op # "daily"
  /\ day' = day + 1
  /\ ledger' = IF Daily THEN Cleared(ledger, Collections) ELSE ledger
  /\ kept' = IF Daily THEN Cleared(kept, Collections) ELSE kept
  /\ UNCHANGED <<history, stored, lock, call, faults, heard>>

Step(k) ==
  \/ Rehearse(k) \/ Claim(k) \/ SelectNothing(k) \/ Wipe(k)
  \/ Saved(k) \/ SaveRaises(k)

Requests(k) ==
  \/ \E c \in Collections, offered \in Offers, ordered \in BOOLEAN,
        op \in {"select", "dry"} : AskSelect(k, c, offered, ordered, op)
  \/ \E ids \in SUBSET Collections : AskReset(k, ids)
  \/ AskDaily(k)

Next ==
  \/ \E k \in Calls : Requests(k) \/ Step(k)
  \/ Restart
  \/ NextDay

Spec == Init /\ [][Next]_vars

-----------------------------------------------------------------------------
TypeOK ==
  /\ history \in [Collections -> Records]
  /\ stored \in [Collections -> Records]
  /\ lock \in Calls \cup {Free}
  /\ call \in [Calls -> CallStates]
  /\ \A k \in Calls : call[k].pc = "saving" <=> lock = k
  /\ day \in Nat /\ faults \in Nat
  /\ ledger \in [Collections -> Pages]
  /\ kept \in [Collections -> Pages]
  /\ heard \in [Collections -> Nat]

\* No clip is answered twice in a round: not by two calls, not after a save
\* that raised, not after a restart; a clip that was not eligible at a
\* selection in between may come again.
NoRepeat ==
  \A k \in Calls, c \in Collections :
    call[k].pc = "saving" /\ Claims(k, c) => call[k].clip \notin ledger[c].shown

\* No clip is passed over: what counts as played today was answered in this
\* round, is in hand, or was claimed by a call that failed.
MarksAreEarned ==
  \A c \in Collections :
    Counts(c) => history[c].played \subseteq
      ledger[c].shown \cup ledger[c].lost
      \cup {call[k].clip : k \in {k \in Calls : call[k].pc = "saving" /\ Claims(k, c)}}

\* A collection's history rolls over only once every eligible clip in it has
\* been answered, or claimed by a call that failed, since the round began.
RolloverIsEarned ==
  [][\A k \in Calls, c \in Collections :
       /\ call[k].pc = "wait" /\ call'[k].pc = "saving" /\ call[k].op = "select"
       /\ c \in call[k].ids
       /\ history'[c].round > history[c].round + (IF c \in Due(history) THEN 1 ELSE 0)
       => Members(call[k].offered) \subseteq ledger[c].shown \cup ledger[c].lost]_vars

\* The round an answer was given in survives: neither a restart nor a save that
\* raises takes a collection back to an earlier round.
RoundsAreDurable ==
  \A c \in Collections : heard[c] <= stored[c].round /\ heard[c] <= history[c].round

\* history_reset tells the caller, once, that a new round has begun since the
\* last answer; only a claim that was lost in between may hide it.
FlagMatchesRound ==
  \A k \in Calls, c \in Collections :
    call[k].pc = "saving" /\ Claims(k, c) /\ ~ledger[c].blurred
      => (call[k].flag <=> call[k].round > heard[c])

-----------------------------------------------------------------------------
(* What records, pages and claims have to do with each other; with TypeOK  *)
(* it is inductive.  h and book are memory and ledger, or the file and what *)
(* the ledger was when it was saved.                                       *)

\* No clip counts as shown without its mark, and no record lags behind an answer.
Agree(h, book, c) ==
  /\ ~h[c].known => h[c] = NoRecord
  /\ h[c].period <= day
  /\ book[c].shown \subseteq h[c].played
  /\ heard[c] <= h[c].round

\* Today's marks were earned, and the reset mark tells of a round nobody has
\* heard of; true of a collection unless a claim for it is in hand.
Settled(h, book, c) ==
  /\ (Daily => h[c].period = day) => h[c].played \subseteq book[c].shown \cup book[c].lost
  /\ ~book[c].blurred => (h[c].pending <=> h[c].round > heard[c])

\* The mark of the claim in hand, which is the only one nobody has been told of.
InHand(k, c) ==
  /\ call[k].clip \in history[c].played \ ledger[c].shown
  /\ call[k].round = history[c].round /\ ~history[c].pending
  /\ Counts(c) => history[c].played \subseteq
                    ledger[c].shown \cup ledger[c].lost \cup {call[k].clip}
  /\ ~ledger[c].blurred => (call[k].flag <=> call[k].round > heard[c])

\* A claim is made by one call, for one collection, and is in hand while it is saved.
OneClaim ==
  \A k \in Calls :
    /\ call[k].clip # NoClip => call[k].pc = "saving"
    /\ call[k].clip # NoClip \/ (call[k].pc = "wait" /\ call[k].op = "select")
         => \A c, d \in call[k].ids : c = d

HistoryInv ==
  /\ TypeOK
  /\ OneClaim
  /\ \A c \in Collections :
       /\ Agree(history, ledger, c) /\ Agree(stored, kept, c) /\ Settled(stored, kept, c)
       /\ (\A k \in Calls : ~Claims(k, c)) => Settled(history, ledger, c)
       /\ \A k \in Calls : Claims(k, c) => InHand(k, c)
=============================================================================
