-------------------------- MODULE InferenceSession --------------------------
(***************************************************************************)
(* A client's fault-tolerant inference session                             *)
(* (drift/client/inference_session.py).                                    *)
(*                                                                         *)
(* The blocks 0..NumBlocks-1 are run by a chain of server sessions, each   *)
(* with an attention cache for its span on one server.  A step sends its   *)
(* tokens down the chain.  When a span fails, the client replaces it by a  *)
(* path of new sessions, whose caches it rebuilds from the activations it  *)
(* has kept (the history of the failed span).                              *)
(*                                                                         *)
(* An activation is represented by the token it belongs to: a span's       *)
(* output for a token is right when its cache held the right tokens before *)
(* it.  A None history is the empty sequence.  Routes are those of         *)
(* make_sequence, whose choice among them is left open, and a server may   *)
(* fail at any time, before or after it has done its work.                 *)
(***************************************************************************)
EXTENDS Integers, Sequences, FiniteSetsExt, SequencesExt

CONSTANTS NumBlocks, Servers,
          Serves,      \* blocks [start, end) of each server
          MaxLength,   \* tokens of the session
          MaxStep,     \* bound: tokens of one step
          MaxTokens,   \* bound: tokens in a behaviour
          MaxRetries,  \* attempts per span
          ReplayChunk, \* tokens that are replayed in one request
          MaxFailures, \* bound: failures in a behaviour
          GoesOn       \* whether the caller uses the session after an error

ASSUME SessionAssumption ==
  /\ {NumBlocks, MaxLength, MaxStep, MaxRetries, ReplayChunk} \subseteq Nat \ {0}
  /\ {MaxTokens, MaxFailures} \subseteq Nat
  /\ \A v \in Servers : /\ Serves[v].start \in 0..(NumBlocks - 1)
                        /\ Serves[v].end \in (Serves[v].start + 1)..NumBlocks
  /\ GoesOn \in BOOLEAN

VARIABLES
  chain,     \* _server_sessions
  position,  \* _position
  sessionPc,        \* "idle", "update", "send", "closed"
  given,     \* the tokens of the current step
  inputs,    \* the activations that are to be sent next
  at,        \* server_idx, counted from 1
  block,     \* block_idx
  attempt,   \* attempt_no
  recovery,  \* recovery_until, 0 for None
  text,      \* the tokens the caller has got outputs for
  out,       \* the activations returned by the last step, if it has returned
  tokens, failures,
  raised     \* a call of the session has raised an exception

sessionVars == <<chain, position, sessionPc, given, inputs, at, block, attempt, recovery,
          text, out, tokens, failures, raised>>

LastN(s, n) == SubSeq(s, Max({1, Len(s) - n + 1}), Len(s))
Target == position + Len(given)

(* A new server session for blocks [start, end).                           *)
NewSession(start, end) ==
  [start |-> start, end |-> end, pos |-> 0, history |-> <<>>, target |-> 0,
   stepped |-> FALSE, closed |-> FALSE, cache |-> <<>>]
-----------------------------------------------------------------------------
(* The chains of sessions that make_sequence may return from block a to b: *)
(* a server is followed to its end before the next one is chosen.          *)
Routes(a, b) ==
  LET stop(v) == Min({Serves[v].end, b})
      has(v, i) == Serves[v].start <= i /\ i < Serves[v].end
      valid(r) ==
        /\ has(r[1], a) /\ stop(r[Len(r)]) = b
        /\ \A i \in 1..(Len(r) - 1) : Serves[r[i]].end < b /\ has(r[i + 1], Serves[r[i]].end)
      path(r) == [i \in DOMAIN r |->
                    NewSession(IF i = 1 THEN a ELSE Serves[r[i - 1]].end, stop(r[i]))]
  IN  {path(r) : r \in {q \in SeqOf(Servers, b - a) : q # <<>> /\ valid(q)}}
-----------------------------------------------------------------------------
(* step is called with n new tokens.                                       *)
Step(n) ==
  /\ sessionPc = "idle" /\ (raised => GoesOn)
  /\ position + n <= MaxLength /\ tokens + n <= MaxTokens
  /\ given' = [i \in 1..n |-> tokens + i]
  /\ inputs' = given'
  /\ tokens' = tokens + n
  /\ at' = 1 /\ block' = 0 /\ attempt' = 0 /\ recovery' = 0
  /\ sessionPc' = IF chain = <<>> THEN "update" ELSE "send"
  /\ out' = <<>>
  /\ UNCHANGED <<chain, position, text, failures, raised>>

(* The handler of an exception in an attempt: after MaxRetries attempts it *)
(* is raised to the caller, else the span is replaced and tried again.     *)
Retry ==
  IF attempt + 1 = MaxRetries
  THEN /\ sessionPc' = "idle" /\ raised' = TRUE
       /\ UNCHANGED attempt
  ELSE /\ sessionPc' = "update" /\ attempt' = attempt + 1
       /\ UNCHANGED raised

(* The span to be replaced, None when the chain is still empty.            *)
HasPrevious == at <= Len(chain)
UpdateEnd == IF HasPrevious THEN chain[at].end ELSE NumBlocks
Closed == [i \in DOMAIN chain |-> IF i = at THEN [chain[i] EXCEPT !.closed = TRUE] ELSE chain[i]]

(* A history that can be replayed: it reaches the session's position.      *)
Restorable == Len(chain[at].history) \in position..Target
NeedsReplay == HasPrevious /\ chain[at].history # <<>>

(* _update_sequence closes the failed session and then finds no route, or  *)
(* cannot open the sessions of the route, or refuses the history it has.   *)
UpdateFails ==
  /\ sessionPc = "update"
  /\ IF Routes(block, UpdateEnd) = {} \/ (NeedsReplay /\ ~Restorable)
     THEN UNCHANGED failures
     ELSE failures < MaxFailures /\ failures' = failures + 1
  /\ chain' = Closed
  /\ Retry
  /\ UNCHANGED <<position, given, inputs, at, block, recovery, text, out, tokens>>

(* The sessions of a route, prepared to rebuild their caches.  The first   *)
(* one gets the history of the failed span; the others get theirs from the *)
(* outputs of their predecessors.                                          *)
Prepared(route) ==
  IF NeedsReplay
  THEN [i \in DOMAIN route |->
          [route[i] EXCEPT !.history = IF i = 1 THEN chain[at].history ELSE <<>>,
                           !.target = Target]]
  ELSE route

(* _update_sequence replaces the failed session by a route.                *)
Update ==
  /\ sessionPc = "update" /\ (NeedsReplay => Restorable)
  /\ \E route \in Routes(block, UpdateEnd) :
       chain' = SubSeq(chain, 1, at - 1) \o Prepared(route) \o SubSeq(chain, at + 1, Len(chain))
  /\ recovery' = IF NeedsReplay THEN Max({recovery, UpdateEnd}) ELSE recovery
  /\ sessionPc' = "send"
  /\ UNCHANGED <<position, given, inputs, at, block, attempt, text, out, tokens, failures, raised>>
-----------------------------------------------------------------------------
(* The history with which a session goes into a step: the missing tokens   *)
(* are taken from the inputs.                                              *)
Extended(s) ==
  IF s.target > 0
  THEN IF s.history = <<>> THEN inputs
       ELSE s.history \o LastN(inputs, Max({0, s.target - Len(s.history)}))
  ELSE IF Len(s.history) = s.pos THEN s.history \o inputs ELSE s.history

(* The checks of a step: the session is open, it is where the chain is,    *)
(* and its history comes out with the right length.                        *)
PositionAgrees(s) == s.pos = IF s.target > 0 THEN 0 ELSE position
LengthAgrees(s) ==
  IF s.target > 0
  THEN /\ s.target - Len(s.history) <= Len(inputs) \/ s.history = <<>>
       /\ Len(Extended(s)) = s.target
  ELSE Len(Extended(s)) = s.pos + Len(inputs)

Usable(s) == ~s.closed /\ PositionAgrees(s) /\ LengthAgrees(s)

(* The history after an attempt that failed: it is left alone when the     *)
(* session is not where it should be or when the inputs cannot complete it *)
Kept(s) ==
  IF \/ s.closed \/ ~PositionAgrees(s)
     \/ s.history # <<>> /\ s.target - Len(s.history) > Len(inputs)
  THEN s.history
  ELSE Extended(s)

(* What is sent to the server: the whole history to rebuild a cache or in  *)
(* a first step, only the new tokens otherwise.                            *)
Sent(s) == IF s.target > 0 \/ ~s.stepped THEN Extended(s) ELSE inputs

(* The server's own check, which only a session used after an error fails. *)
Fits(s) == s.pos + Len(Sent(s)) <= MaxLength

(* What an attempt that fails leaves of a session.  A long history is      *)
(* replayed in chunks, after which the session no longer counts as one     *)
(* that is to be replayed; some of the chunks may have been answered.      *)
AfterFailure(s) ==
  LET kept == [s EXCEPT !.history = Kept(s), !.stepped = @ \/ Usable(s)]
  IN  IF Usable(s) /\ s.target > ReplayChunk
      THEN {[kept EXCEPT !.target = 0, !.pos = n * ReplayChunk,
                         !.cache = SubSeq(Kept(s), 1, n * ReplayChunk)] :
              n \in 0..((s.target - 1) \div ReplayChunk)}
      ELSE {kept}

(* The attempt fails: a check fails, or the server does.  In the latter    *)
(* case the history is already extended.                                   *)
FailSend ==
  /\ sessionPc = "send"
  /\ LET s == chain[at] IN
     /\ IF Usable(s) /\ Fits(s)
        THEN failures < MaxFailures /\ failures' = failures + 1
        ELSE UNCHANGED failures
     /\ \E after \in AfterFailure(s) : chain' = [chain EXCEPT ![at] = after]
  /\ Retry
  /\ UNCHANGED <<position, given, inputs, at, block, recovery, text, out, tokens>>

(* The server drops its cache from the given position on, appends what it  *)
(* is sent and answers.  Once the replaced blocks are done, the replayed   *)
(* prefix is cut off.                                                      *)
Send ==
  /\ sessionPc = "send"
  /\ LET s == chain[at]
         done == recovery > 0 /\ s.end >= recovery
     IN
     /\ Usable(s) /\ Fits(s)
     /\ chain' = [chain EXCEPT ![at] =
          [s EXCEPT !.history = Extended(s), !.pos = @ + Len(Sent(s)), !.target = 0, !.stepped = TRUE,
                    !.cache = SubSeq(@, 1, s.pos) \o Sent(s)]]
     /\ inputs' = IF done THEN LastN(Sent(s), Len(given)) ELSE Sent(s)
     /\ recovery' = IF done THEN 0 ELSE recovery
     /\ at' = at + 1 /\ block' = s.end /\ attempt' = 0
     /\ sessionPc' = IF s.end < NumBlocks THEN "send" ELSE "return"
  /\ UNCHANGED <<position, given, text, out, tokens, failures, raised>>

(* The step returns the outputs of its tokens.                             *)
Return ==
  /\ sessionPc = "return"
  /\ position' = position + Len(given)
  /\ out' = LastN(inputs, Len(given))
  /\ text' = text \o given
  /\ sessionPc' = "idle"
  /\ UNCHANGED <<chain, given, inputs, at, block, attempt, recovery, tokens, failures, raised>>

(* The sessions that are set back to position k: the assertion that none   *)
(* is behind it ends the loop over them.                                   *)
Behind(k) == {i \in DOMAIN chain : chain[i].pos < k}
SetBack(k) == {i \in DOMAIN chain : \A j \in Behind(k) : i < j}

(* Fault model: the kept activations are not rolled back.                  *)
RollbackKeeps(k) ==
  /\ sessionPc = "idle" /\ (raised => GoesOn) /\ k < position
  /\ position' = k
  /\ chain' = [i \in DOMAIN chain |-> IF i \in SetBack(k) THEN [chain[i] EXCEPT !.pos = k] ELSE chain[i]]
  /\ text' = SubSeq(text, 1, k)
  /\ out' = <<>> /\ raised' = (raised \/ Behind(k) # {})
  /\ UNCHANGED <<sessionPc, given, inputs, at, block, attempt, recovery, tokens, failures>>

(* The caller sets the position back, to drop tokens it had guessed.       *)
Rollback(k) ==
  /\ sessionPc = "idle" /\ (raised => GoesOn) /\ k < position
  /\ position' = k
  /\ chain' = [i \in DOMAIN chain |->
       IF i \in SetBack(k)
       THEN [chain[i] EXCEPT !.pos = k, !.history = IF Len(@) >= k THEN SubSeq(@, 1, k) ELSE @]
       ELSE chain[i]]
  /\ text' = SubSeq(text, 1, k)
  /\ out' = <<>> /\ raised' = (raised \/ Behind(k) # {})
  /\ UNCHANGED <<sessionPc, given, inputs, at, block, attempt, recovery, tokens, failures>>

(* The session is closed, with all its server sessions.                    *)
CloseSession ==
  /\ sessionPc = "idle"
  /\ sessionPc' = "closed"
  /\ chain' = <<>>
  /\ UNCHANGED <<position, given, inputs, at, block, attempt, recovery, text, out,
                 tokens, failures, raised>>
-----------------------------------------------------------------------------
SessionInit ==
  /\ chain = <<>> /\ position = 0 /\ sessionPc = "idle"
  /\ given = <<>> /\ inputs = <<>>
  /\ at = 1 /\ block = 0 /\ attempt = 0 /\ recovery = 0
  /\ text = <<>> /\ out = <<>>
  /\ tokens = 0 /\ failures = 0 /\ raised = FALSE

SessionNext ==
  \/ \E n \in 1..MaxStep : Step(n)
  \/ UpdateFails \/ Update \/ FailSend \/ Send \/ Return
  \/ \E k \in 0..(MaxLength - 1) : Rollback(k)
  \/ CloseSession

SessionSpec == SessionInit /\ [][SessionNext]_sessionVars

(* The caller's thread runs a step until it returns or raises.             *)
SessionFairSpec == SessionSpec /\ WF_sessionVars(UpdateFails \/ Update \/ FailSend \/ Send \/ Return)
-----------------------------------------------------------------------------
Session == [start : 0..NumBlocks, end : 0..NumBlocks, pos : 0..MaxLength,
            history : Seq(1..MaxTokens), target : 0..MaxLength,
            stepped : BOOLEAN, closed : BOOLEAN,
            cache : Seq(1..MaxTokens)]

(* Types of the variables.                                                 *)
SessionTypeOK ==
  /\ chain \in Seq(Session) /\ position \in 0..MaxLength
  /\ sessionPc \in {"idle", "update", "send", "return", "closed"}
  /\ {given, inputs, text, out} \subseteq Seq(1..MaxTokens)
  /\ at \in 1..(NumBlocks + 1) /\ block \in 0..NumBlocks
  /\ attempt \in 0..(MaxRetries - 1) /\ recovery \in 0..NumBlocks
  /\ tokens \in 0..MaxTokens /\ failures \in 0..MaxFailures /\ raised \in BOOLEAN

(* The chain covers the blocks without gap or overlap, however often and   *)
(* wherever it was repaired, and the next session starts at block_idx.     *)
Tiled ==
  /\ chain # <<>> => chain[1].start = 0 /\ chain[Len(chain)].end = NumBlocks
  /\ \A i \in 1..(Len(chain) - 1) : chain[i].end = chain[i + 1].start
  /\ sessionPc = "send" => at <= Len(chain) /\ chain[at].start = block

(* Every server holds exactly the tokens of the text in its attention      *)
(* cache, the client could replay exactly these, and the outputs of a step *)
(* are those of its own tokens.                                            *)
Exact ==
  /\ \A i \in DOMAIN chain :
       /\ SubSeq(chain[i].cache, 1, chain[i].pos) = text
       /\ chain[i].history = text
       /\ ~chain[i].closed /\ chain[i].target = 0
  /\ out # <<>> => out = LastN(text, Len(given))

(* As long as no step has raised, repairs in the middle of steps and       *)
(* rollbacks between them leave no trace: caches, histories and outputs    *)
(* are those of a session without failures.                                *)
RepairsLeaveNoTrace == sessionPc = "idle" /\ ~raised => Exact

(* The same of every step that returns, also after one that raised.        *)
CachesExact == sessionPc = "idle" /\ out # <<>> => Exact

(* As long as no step has raised, only failures of servers make an attempt *)
(* fail: the client never refuses its own history or position.             *)
RepairsPossible ==
  ~raised => /\ sessionPc = "send" => Usable(chain[at]) /\ Fits(chain[at])
             /\ sessionPc = "update" /\ NeedsReplay => Restorable

(* The replayed prefix is cut off exactly at the end of the replaced span. *)
RecoveryEnds == sessionPc = "send" /\ ~raised /\ recovery > 0 => chain[at].end <= recovery

(* All of it: the chain stays tiled, and repairs are possible, exact and   *)
(* without a trace.                                                        *)
RepairsExact == Tiled /\ RepairsLeaveNoTrace /\ RepairsPossible /\ RecoveryEnds

(* A step returns or raises, in spite of failures.                         *)
StepsEnd == (sessionPc \notin {"idle", "closed"}) ~> (sessionPc = "idle")
=============================================================================
