--------------------------- MODULE TranscriptFlush ---------------------------
(***************************************************************************)
(* What hooks do under the lock of TranscriptLock: read the cursor, read    *)
(* the transcript, POST the turns after the cursor one by one, and write    *)
(* the cursor forward (conversation-turn.ts and session-end.ts, flush.ts,   *)
(* claude-code.ts).                                                         *)
(*                                                                         *)
(* A turn is its number, and the cursor the number of turns it is past.     *)
(* The turns of the transcript are complete: one that is still being        *)
(* written counts when it is finished (a Stop hook keeps it pending).       *)
(***************************************************************************)
EXTENDS TranscriptLock

CONSTANTS
  MaxTurns,    \* bound on the turns of the transcript
  Noise,       \* turns that are skipped, and count as delivered
  MaxMisreads  \* bound on the reads of the cursor that fail

ASSUME TranscriptFlushAssumption == MaxTurns \in Nat /\ MaxMisreads \in Nat

Turns == 1 .. MaxTurns

VARIABLES
  written,   \* turns in the transcript
  cursor,    \* the offset file
  sent,      \* turns the service received
  flush,     \* local state of every hook's body
  misreads   \* reads of the cursor that have failed

flushVars == <<written, cursor, sent, flush, misreads>>
vars == <<lockVars, flushVars>>

FlushStages == {"offset", "read", "ask", "post", "commit", "compare", "write", "end"}
\* The turns from .. upto were read, next is the one to deliver.  blind: the cursor could
\* not be read before them.
Flush == [stage: FlushStages, from: Nat, upto: Nat, next: Nat, blind: BOOLEAN]
Fresh(stage) == [stage |-> stage, from |-> 0, upto |-> 0, next |-> 0, blind |-> FALSE]

FlushTypeOK ==
  /\ LockTypeOK
  /\ written \in 0 .. MaxTurns
  /\ cursor \in 0 .. MaxTurns
  /\ sent \subseteq Turns
  /\ flush \in [Hooks -> Flush]
  /\ misreads \in 0 .. MaxMisreads

Init ==
  /\ LockInit
  /\ written = 0
  /\ cursor = 0
  /\ sent = {}
  /\ flush = [h \in Hooks |-> Fresh("offset")]
  /\ misreads = 0

In(h, stage) == At(h, "body") /\ flush[h].stage = stage
Step(h, stage) == flush' = [flush EXCEPT ![h].stage = stage]
End(h) == flush' = [flush EXCEPT ![h] = Fresh("end")]

\* The user and the assistant go on
Speak ==
  /\ written < MaxTurns
  /\ written' = written + 1
  /\ UNCHANGED <<lockVars, cursor, sent, flush, misreads>>

\* readFlushOffset returns n: an offset file that cannot be read passes for none
Read(n) ==
  IF n = cursor THEN UNCHANGED misreads
  ELSE n = 0 /\ misreads < MaxMisreads /\ misreads' = misreads + 1

\* The turns from t on are to be read
From(h, t, n) ==
  /\ Read(n)
  /\ flush' = [flush EXCEPT ![h] = [@ EXCEPT !.stage = "read", !.from = t, !.next = t,
                                            !.blind = (n # cursor)]]

\* Mutant: the offset is taken for the number of the next turn
ReadOffsetItself(h) ==
  /\ In(h, "offset")
  /\ \E n \in {0, cursor} : From(h, n, n)
  /\ UNCHANGED <<lockVars, written, cursor, sent>>
ReadOffset(h) ==
  /\ In(h, "offset")
  /\ \E n \in {0, cursor} : From(h, n + 1, n)
  /\ UNCHANGED <<lockVars, written, cursor, sent>>

\* parseTranscript, that may fail: without a turn after the offset nothing is staged
ReadTranscript(h) ==
  /\ In(h, "read")
  /\ \/ flush[h].next > written /\ End(h)
     \/ /\ flush[h].next <= written
        /\ flush' = [flush EXCEPT ![h].upto = written, ![h].stage = "ask"]
     \/ End(h)
  /\ UNCHANGED <<lockVars, written, cursor, sent, misreads>>

CommitAll(h) == flush[h].upto
CommitNext(h) == flush[h].next
\* The cursor a flush that stopped before next may write: past what was delivered
Committed(h) == flush[h].next - 1

\* flushTurns stops before turn t: with nothing delivered the cursor stays
Stop(h, t) ==
  IF t = flush[h].from THEN End(h)
  ELSE flush' = [flush EXCEPT ![h].next = t, ![h].stage = "commit"]

\* t is the next turn to deliver: those before it are noise
NextIs(h, t) ==
  /\ \A u \in flush[h].next .. (t - 1) : u \in Noise
  /\ t <= flush[h].upto => t \notin Noise

\* The loop of flushTurns, up to the next POST: held() is asked before every one
Ask(h) ==
  /\ In(h, "ask")
  /\ \E t \in flush[h].next .. (flush[h].upto + 1) :
       /\ NextIs(h, t)
       /\ IF t <= flush[h].upto /\ Held(h)
          THEN flush' = [flush EXCEPT ![h].next = t, ![h].stage = "post"]
          ELSE Stop(h, t)
  /\ UNCHANGED <<lockVars, written, cursor, sent, misreads>>

Post(h) ==
  /\ In(h, "post")
  /\ sent' = sent \cup {flush[h].next}
  /\ flush' = [flush EXCEPT ![h].stage = "ask", ![h].next = @ + 1]
  /\ UNCHANGED <<lockVars, written, cursor, misreads>>

\* The POST failed or timed out; the service may have received the turn all the same
PostFails(h) ==
  /\ In(h, "post")
  /\ sent' \in {sent, sent \cup {flush[h].next}}
  /\ Stop(h, flush[h].next)
  /\ UNCHANGED <<lockVars, written, cursor, misreads>>

\* commitClaudeCodeFlush: stillHeld() ...
Commit(h) ==
  /\ In(h, "commit")
  /\ IF Held(h) THEN Step(h, "compare") ELSE End(h)
  /\ UNCHANGED <<lockVars, written, cursor, sent, misreads>>

\* ... the offset file is read once more ...
Compare(h) ==
  /\ In(h, "compare")
  /\ \E n \in {0, cursor} :
       Read(n) /\ IF Committed(h) <= n THEN End(h) ELSE Step(h, "write")
  /\ UNCHANGED <<lockVars, written, cursor, sent>>

\* ... and replaced by a rename, that may fail
Write(h) ==
  /\ In(h, "write")
  /\ cursor' \in {cursor, Committed(h)}
  /\ End(h)
  /\ UNCHANGED <<lockVars, written, sent, misreads>>

FlushStep(h) ==
  \/ ReadOffset(h) \/ ReadTranscript(h) \/ Ask(h) \/ Post(h) \/ PostFails(h)
  \/ Commit(h) \/ Compare(h) \/ Write(h)

\* The body returns when the flush has ended
Deliver(h) == flush[h].stage = "end" /\ Leave(h) /\ UNCHANGED flushVars

LockStep(h) == (Acquire(h) \/ Unlink(h)) /\ UNCHANGED flushVars

Surrender(h) == GiveUp(h) /\ UNCHANGED flushVars

Aged(h) == (GrowOld(h) \/ MutexGrowsOld(h)) /\ UNCHANGED flushVars

\* The local state of the body goes with its process
Killed(h) == Exit(h) /\ End(h) /\ UNCHANGED <<written, cursor, sent, misreads>>

Next ==
  \/ Speak
  \/ \E h \in Hooks : FlushStep(h) \/ Deliver(h) \/ LockStep(h) \/ Surrender(h) \/ Aged(h) \/ Killed(h)

Spec == Init /\ [][Next]_vars

\* A hook that runs goes on (a POST is answered or times out), and time passes.
\* Nothing makes a process end, a waiter give up or the transcript grow.
Fairness ==
  \A h \in Hooks :
    /\ WF_vars(FlushStep(h) \/ Deliver(h) \/ LockStep(h))
    /\ WF_vars(Aged(h))

FairSpec == Spec /\ Fairness

-----------------------------------------------------------------------------
(* Properties *)

\* The cursor never passes a turn that the service has not received: not when the
\* lock fails, a flush stops half way, a POST gets no answer or a hook is killed.
NoTurnSkipped == \A t \in 1 .. cursor : t \in sent \cup Noise

\* Turns that a running hook has delivered and may yet commit
InFlight(h) ==
  IF In(h, "end") \/ ~ At(h, "body") THEN {} ELSE flush[h].from .. (flush[h].next - 1)

\* A turn is posted again only when whoever posted it can no longer commit it: it is
\* not past the cursor, and not among those a running hook has delivered so far.  A hook
\* that could not read the cursor begins with the first turn, whatever was delivered
\* before; the others keep to this though such a hook came before them.
NeverTwice ==
  [][\A h \in Hooks :
       ~disturbed /\ ~flush[h].blind /\ flush[h].stage = "post" /\ flush'[h] # flush[h] =>
         /\ flush[h].next > cursor
         /\ \A g \in Hooks : flush[h].next \notin InFlight(g)]_vars

\* transcript-lock.ts:37-38 says that the cursor is only ever written forward.  (A failed
\* read in Compare is another way to write it back; the run has MaxMisreads = 0.)
CursorForward == [][cursor' >= cursor]_cursor

=============================================================================
