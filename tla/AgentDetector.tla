--------------------------- MODULE AgentDetector ---------------------------
(* Which agent occupies one Pane and what it last said: the detector that is *)
(* fed with what the process table shows and with what the agent reports     *)
(* through its hooks and the Program Status Protocol (agent/detector.rs).    *)
(* A detector is a record; the operators return the next one together with   *)
(* what is to be published: <<>> for nothing, <<NoAgent>> for an agent that  *)
(* left, <<snapshot>> for one that changed.                                  *)
EXTENDS Naturals, SequencesExt

CONSTANTS
    AgentKinds,      \* the agents the process table can name
    Hooked,          \* those whose hooks are trusted
    TurnNamed,       \* those whose hooks name their turn
    NoKind,
    Misses           \* unidentified looks in a row that mean the agent is gone

NoConversation == "no conversation"
NoTurn         == 0
NoDetail       == "no detail"
NoReference    == [kind |-> NoKind, conversation |-> NoConversation]
Reference(k, c) == IF c = NoConversation THEN NoReference ELSE [kind |-> k, conversation |-> c]

NewDetector ==
    [agent |-> NoKind, state |-> "none", conversation |-> NoConversation, turn |-> NoTurn,
     detail |-> NoDetail, program_status |-> FALSE, resume |-> <<>>, restoring |-> NoReference,
     seeded |-> FALSE, last_probe |-> "never", misses |-> 0]

NoAgent == [kind |-> NoKind, state |-> "none", conversation |-> NoConversation, detail |-> NoDetail]
AgentSnapshot(d) ==
    [kind |-> d.agent, state |-> d.state, conversation |-> d.conversation, detail |-> d.detail]

Quietly(d)    == [detector |-> d, publish |-> <<>>]
Publishing(d) == [detector |-> d, publish |-> <<AgentSnapshot(d)>>]

(* A conversation that is about to be reopened, kept until the agent is seen. *)
Restoring(d, r) == [d EXCEPT !.resume = <<r>>, !.restoring = r]

---------------------------------------------------------------------------
(* What the process table shows: a kind, the bare "shell", or "unidentified". *)

ObserveAgent(d, k) ==
    LET c == IF d.restoring.kind = k THEN d.restoring.conversation ELSE NoConversation IN
    IF d.agent = k THEN Quietly([d EXCEPT !.misses = 0, !.seeded = FALSE])
    ELSE Publishing([d EXCEPT !.agent = k, !.state = "unknown", !.conversation = c, !.turn = NoTurn,
                         !.detail = NoDetail, !.program_status = FALSE, !.restoring = NoReference,
                         !.resume = <<Reference(k, c)>>, !.seeded = FALSE, !.misses = 0])

(* A seeded agent is invisible in the table: only the bare shell ends it. *)
Missed(d) == [d EXCEPT !.misses = IF d.agent = NoKind THEN 0 ELSE IF d.seeded THEN @ ELSE @ + 1]

Exits(d, result) == result = "shell" \/ (~d.seeded /\ d.misses >= Misses)

ObserveNone(d, result) ==
    LET missed == IF result = "shell" THEN d ELSE Missed(d) IN
    IF d.agent = NoKind \/ ~Exits(missed, result) THEN Quietly(missed)
    ELSE [detector |-> [NewDetector EXCEPT !.resume = <<NoReference>>, !.last_probe = d.last_probe],
          publish  |-> <<NoAgent>>]

ObserveProcess(d, result) ==
    LET seen == [d EXCEPT !.last_probe = result] IN
    IF result \in AgentKinds THEN ObserveAgent(seen, result) ELSE ObserveNone(seen, result)

---------------------------------------------------------------------------
(* What the agent says. *)

(* The first report from a job the table cannot name gives it its name. *)
Seeded(d, k) ==
    IF d.agent = NoKind /\ d.last_probe = "unidentified"
    THEN [d EXCEPT !.agent = k, !.seeded = TRUE, !.state = "unknown"] ELSE d

Commit(d, state, c, detail) ==
    IF <<state, c, detail>> = <<d.state, d.conversation, d.detail>> THEN Quietly(d)
    ELSE Publishing([d EXCEPT !.state = state, !.conversation = c, !.detail = detail])

(* The state after a hook event. *)
After(e, state) ==
    CASE e.event = "session_start" -> IF e.compact THEN state ELSE "idle"
      [] e.event = "interrupt"     -> "idle"
      [] e.event = "stop"          -> "done"
      [] e.event = "stop_failure"  -> "error"
      [] e.event = "request"       -> "blocked"
      [] OTHER                     -> "working"       \* prompt_submit, tool

(* A completion that was sent before the turn that has begun since. *)
IsOfAnotherTurn(d, e) ==
    /\ e.agent \in TurnNamed /\ e.event \notin {"session_start", "prompt_submit"}
    /\ e.turn # NoTurn /\ d.turn # NoTurn
    /\ e.turn # d.turn \/ e.conversation \notin {NoConversation, d.conversation}

TurnAfter(d, e) ==
    IF e.agent \notin TurnNamed THEN d.turn
    ELSE CASE e.event = "session_start" -> NoTurn
           [] e.event = "prompt_submit" -> e.turn
           [] OTHER                     -> d.turn

StartsConversation(e) == e.event = "session_start" /\ ~e.compact

ObserveEvent(old, e) ==
    LET d == Seeded(old, e.agent)
        c == IF e.conversation # NoConversation \/ StartsConversation(e)
             THEN e.conversation ELSE d.conversation
        named == IF e.conversation # NoConversation \/ StartsConversation(e)
                 THEN [d EXCEPT !.turn = TurnAfter(d, e), !.restoring = NoReference,
                                !.resume = <<Reference(d.agent, c)>>]
                 ELSE [d EXCEPT !.turn = TurnAfter(d, e)]
        next == After(e, d.state)
    IN IF e.agent \notin Hooked THEN Quietly(old)
       ELSE IF d.agent # e.agent \/ IsOfAnotherTurn(d, e) THEN Quietly(d)
       ELSE IF d.program_status THEN Commit(named, d.state, c, d.detail)
       ELSE Commit(named, next, c, IF next = "blocked" THEN e.detail ELSE NoDetail)

(* A report of the Program Status Protocol: of a child record, of a named    *)
(* program ("stranger" when no agent has that name) or of whoever is there.  *)
ObserveStatus(old, s) ==
    LET d == IF s.app \in AgentKinds THEN Seeded(old, s.app) ELSE old
        next == IF s.state = "clear" THEN "unknown" ELSE s.state
    IN IF s.child THEN Quietly(old)
       ELSE IF d.agent = NoKind \/ s.app \notin {NoKind, d.agent} THEN Quietly(d)
       ELSE Commit([d EXCEPT !.program_status = @ \/ s.state # "clear"], next, d.conversation,
                   IF next \in {"blocked", "error"} THEN s.detail ELSE NoDetail)

(* A new shell prompt: what the program was doing is stale. *)
ObservePromptStart(d) ==
    IF d.program_status /\ d.state \in {"working", "blocked"}
    THEN Commit(d, "unknown", d.conversation, NoDetail) ELSE Quietly(d)

(* A full reset removes every record. *)
ObserveReset(d) ==
    IF d.program_status
    THEN Commit([d EXCEPT !.program_status = FALSE], "unknown", d.conversation, NoDetail)
    ELSE Quietly(d)

Observe(d, notice) ==
    CASE notice.type = "hook"   -> ObserveEvent(d, notice)
      [] notice.type = "status" -> ObserveStatus(d, notice)
      [] notice.type = "prompt" -> ObservePromptStart(d)
      [] OTHER                  -> ObserveReset(d)

(* A notice that names its agent makes the process table worth a look. *)
NamesAgent(notice) ==
    notice.type = "hook" \/ (notice.type = "status" /\ notice.app \in AgentKinds)

(* The latest of two observations: its detector, and what either publishes. *)
Then(r, next) ==
    [detector |-> next.detector, publish |-> IF next.publish = <<>> THEN r.publish ELSE next.publish]

ObserveAll(r, notices) ==
    FoldLeft(LAMBDA acc, notice : Then(acc, Observe(acc.detector, notice)), r, notices)

(* One tick of the probe: the process table first, then the notices, except   *)
(* that a bare shell ends the agent after its last words. <<>>: not looked.   *)
Ticked(d, result, notices) ==
    LET none   == Quietly(d)
        named  == IF result \in {"none", "shell"} THEN none ELSE ObserveProcess(d, result)
        heard  == ObserveAll(named, notices)
    IN IF result = "shell" THEN Then(heard, ObserveProcess(heard.detector, "shell")) ELSE heard
=============================================================================
