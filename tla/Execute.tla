------------------------------- MODULE Execute -------------------------------
(***************************************************************************)
(* KernelSession.execute() (kernel.py) against a kernel that answers over  *)
(* two channels: a cell's outputs come in over iopub and fill its buffer,  *)
(* its reply comes over shell.  The call ends when the kernel goes idle,   *)
(* or when it was silent for too long, and then the cell may still run.    *)
(***************************************************************************)
EXTENDS OutputBuffer

CONSTANTS
  MaxCells,     \* bound: calls of execute()
  MaxInFlight   \* bound: messages the kernel is ahead of the client

ASSUME BoundsAssumption == MaxCells \in Nat /\ MaxInFlight \in Nat

VARIABLES
  cell,         \* the last call's msg_id
  cpc,          \* where execute() is
  status,       \* what it reports
  iopub, shell, \* the channels: messages with the cell they belong to
  alive,        \* KernelSession.alive
  requests,     \* sent, not begun
  now,          \* the cell the kernel runs, or Nothing
  signal,       \* whether it was interrupted, and its code lets that through
  made,         \* history: what it printed, unless it is given up on
  outcome,      \* history: how cells ended in the kernel
  lost          \* history: cells this kernel ran into a timeout

client   == <<cell, cpc, status>>
channels == <<iopub, shell>>
running  == <<now, signal, made>>
kernel   == <<alive, requests, running, outcome>>
vars     == <<client, channels, kernel, lost, bufferVars>>

Cells   == 1..MaxCells
Nothing == 0
Blank   == [log |-> <<>>, written |-> 0, pending |-> FALSE]

Message(type, kind, n) == [owner |-> now, type |-> type, kind |-> kind, n |-> n]
Messages == [owner: Cells, type: {"output", "error", "clear", "clear_wait", "idle"},
             kind: Streams \cup {Rich}, n: Sizes \cup {1}]

Init ==
  /\ cell = 0 /\ cpc = "idle" /\ status = "none"
  /\ iopub = <<>> /\ shell = <<>>
  /\ alive = FALSE /\ requests = <<>>
  /\ now = Nothing /\ signal = "none" /\ made = Blank
  /\ outcome = [c \in Cells |-> "none"] /\ lost = {}
  /\ BufferInit

----------------------------------------------------------------------------
(* The kernel (ipykernel): runs requests in order, prints, raises, hangs,  *)
(* dies.  A reply is sent before the idle status.                          *)

Begin ==
  /\ now = Nothing /\ requests # <<>>
  /\ now' = Head(requests) /\ requests' = Tail(requests)
  /\ signal' = "none" /\ made' = Blank
  /\ UNCHANGED <<client, channels, alive, outcome, lost, bufferVars>>

\* What was printed once (kind, n) is as well: clear_output(wait=True) waits
\* for the next output.
Extended(p, kind, n) ==
  LET before == IF p.pending THEN 0 ELSE p.written
  IN  [log     |-> Logged(IF p.pending THEN <<>> ELSE p.log, Output(kind, before, n)),
       written |-> before + n, pending |-> FALSE]

Record(p) == made' = IF now \in lost THEN Blank ELSE p

Send(m, p) ==
  /\ now # Nothing /\ Len(iopub) < MaxInFlight
  /\ iopub' = Append(iopub, m) /\ Record(p)
  /\ UNCHANGED <<client, shell, alive, requests, now, signal, outcome, lost, bufferVars>>

PrintOut(kind, n) ==
  /\ Extended(made, kind, n).written < MaxChars \* leaves room for an error
  /\ Send(Message("output", kind, n), Extended(made, kind, n))

ClearOutput ==
  \/ Send(Message("clear", Rich, 1), Blank)
  \/ ~made.pending /\ Send(Message("clear_wait", Rich, 1), [made EXCEPT !.pending = TRUE])

End(how) ==
  /\ now # Nothing
  /\ Record(IF how = "error" THEN Extended(made, Rich, 1) ELSE made)
  /\ iopub' = iopub \o (IF how = "error" THEN <<Message("error", Rich, 1)>> ELSE <<>>)
                    \o <<Message("idle", Rich, 1)>>
  /\ shell' = Append(shell, [owner |-> now, status |-> how])
  /\ outcome' = [outcome EXCEPT ![now] = how]
  /\ now' = Nothing
  /\ UNCHANGED <<client, alive, requests, signal, lost, bufferVars>>

Heed == signal = "heeded" /\ End("error")

Die ==
  /\ alive
  /\ alive' = FALSE /\ requests' = <<>> /\ now' = Nothing
  /\ UNCHANGED <<client, channels, signal, made, outcome, lost, bufferVars>>

----------------------------------------------------------------------------
(* KernelSession.                                                          *)

\* interrupt(): a kernel between two cells ignores it.
Signal ==
  IF alive /\ now # Nothing /\ signal = "none" THEN signal' \in {"heeded", "swallowed"}
  ELSE UNCHANGED signal

Interrupt ==
  /\ cpc # "idle" /\ Signal
  /\ UNCHANGED <<client, channels, alive, requests, now, made, outcome, lost, bufferVars>>

\* restart(), or shutdown() and a later start(): wait_for_ready() empties the
\* channels.  Tools call them only while nothing runs.
Restart ==
  /\ cpc = "idle"
  /\ alive' \in BOOLEAN
  /\ iopub' = <<>> /\ shell' = <<>> /\ requests' = <<>> /\ now' = Nothing
  /\ status' = "none" /\ lost' = {}
  /\ UNCHANGED <<cell, cpc, signal, made, outcome, bufferVars>>

\* execute(), up to its loop.  ensure_started() replaces a dead kernel.
Call ==
  /\ cpc = "idle" /\ cell < MaxCells
  /\ cell' = cell + 1 /\ cpc' = "read" /\ status' = "ok"
  /\ alive' = TRUE
  /\ IF alive
     THEN requests' = Append(requests, cell') /\ UNCHANGED <<channels, lost>>
     ELSE requests' = <<cell'>> /\ iopub' = <<>> /\ shell' = <<>> /\ lost' = {}
  /\ Clear \* a task has a buffer of its own
  /\ UNCHANGED <<running, outcome>>

OursAny(m) == TRUE \* mutant: parent_header is not looked at
Ours(m)    == m.owner = cell

Receive(from) ==
  /\ cpc = from /\ iopub # <<>> /\ iopub' = Tail(iopub)
  /\ UNCHANGED <<cell, shell, kernel, lost>>

Read ==
  LET m == Head(iopub)
  IN  /\ Receive("read")
      /\ \/ ~Ours(m) /\ UNCHANGED <<cpc, status, bufferVars>>
         \/ /\ Ours(m) /\ m.type = "idle"
            /\ cpc' = "reply" /\ UNCHANGED <<status, bufferVars>>
         \/ /\ Ours(m) /\ m.type \in {"output", "error"}
            /\ status' = IF m.type = "error" THEN "error" ELSE status
            /\ Add(m.kind, m.n) /\ UNCHANGED cpc
         \/ /\ Ours(m) /\ m.type = "clear"
            /\ Clear /\ UNCHANGED <<cpc, status>>
         \/ /\ Ours(m) /\ m.type = "clear_wait"
            /\ ClearLater /\ UNCHANGED <<cpc, status>>

QuietOver == iopub = <<>> /\ now = Nothing \* mutant: waits for the kernel
Quiet     == iopub = <<>>                  \* get_iopub_msg() raises Empty

\* Nothing came for as long as the timeout: interrupt, and give up on the cell.
Silence ==
  /\ cpc = "read" /\ Quiet
  /\ cpc' = "drain" /\ status' = "timeout" /\ lost' = lost \cup {cell}
  /\ Signal /\ made' = Blank
  /\ UNCHANGED <<cell, channels, alive, requests, now, outcome, bufferVars>>

Drain ==
  LET m == Head(iopub)
  IN  /\ Receive("drain")
      /\ cpc' = IF Ours(m) /\ m.type = "idle" THEN "reply" ELSE cpc
      /\ UNCHANGED <<status, bufferVars>>

DrainEnds ==
  /\ cpc = "drain" /\ Quiet
  /\ cpc' = "reply"
  /\ UNCHANGED <<cell, status, channels, kernel, lost, bufferVars>>

StatusTrust(s, r) == r.status           \* mutant: the reply has the last word
StatusAfter(s, r) == IF s = "ok" /\ r.status = "error" THEN "error" ELSE s

NoReplyNever == FALSE         \* mutant: get_shell_msg() without a timeout
NoReply      == shell = <<>>

\* get_shell_msg(timeout=5): whose reply it is is not looked at.
Reply ==
  /\ cpc = "reply" /\ cpc' = "idle"
  /\ \/ shell # <<>> /\ shell' = Tail(shell) /\ status' = StatusAfter(status, Head(shell))
     \/ NoReply /\ UNCHANGED <<shell, status>>
  /\ UNCHANGED <<cell, iopub, kernel, lost, bufferVars>>

----------------------------------------------------------------------------
Client == Read \/ Silence \/ Drain \/ DrainEnds \/ Reply

Printing == \E s \in Streams, n \in Sizes : PrintOut(s, n) \/ PrintOut(Rich, 1) \/ ClearOutput

Next ==
  \/ Call \/ Client \/ Interrupt \/ Restart
  \/ Begin \/ Printing \/ End("ok") \/ End("error") \/ Die

Spec == Init /\ [][Next]_vars /\ WF_vars(Client) /\ WF_vars(Begin) /\ WF_vars(Heed)

----------------------------------------------------------------------------
(* Properties.                                                             *)

TypeOK ==
  /\ cell \in 0..MaxCells
  /\ cpc \in {"idle", "read", "drain", "reply"}
  /\ status \in {"none", "ok", "error", "timeout"}
  /\ iopub \in Seq(Messages)
  /\ shell \in Seq([owner: Cells, status: {"ok", "error"}])
  /\ alive \in BOOLEAN /\ signal \in {"none", "heeded", "swallowed"}
  /\ requests \in Seq(Cells) /\ now \in Cells \cup {Nothing}
  /\ made \in [log: Seq(Outputs), written: 0..MaxChars, pending: BOOLEAN]
  /\ outcome \in [Cells -> {"none", "ok", "error"}]
  /\ lost \subseteq Cells
  /\ BufferTypeOK

\* A cell that is not given up on ends with exactly what it printed in its
\* buffer: nothing of a cell that was given up on and still prints gets in,
\* nothing of its own is lost (kernel.py: "accumulating outputs into `buffer`").
OwnOutputs == cpc = "reply" /\ status # "timeout" => log = made.log

\* "ok" is only reported for a cell that ran to its end without an error, even
\* after a timeout, and "error" for one that raised.  There is one exception,
\* as the code does not look at whose reply it takes: once this kernel has had
\* a timeout, a cell that did not raise may be given the error of an earlier
\* one that did.
OwnOutcome ==
  cpc = "idle" =>
    /\ status = "ok" => outcome[cell] = "ok"
    /\ status = "error" =>
         \/ outcome[cell] = "error"
         \/ lost # {} /\ \E c \in 1..(cell - 1) : outcome[c] = "error"

\* A kernel that hangs, dies or goes silent never keeps execute() for ever: the
\* call ends, or the cell prints without end (DEFAULT_EXEC_TIMEOUT is a limit
\* on silence).
EndsUnlessPrinting == []<>(cpc = "idle") \/ []<><<Printing>>_vars

\* An interrupt that meets the cell ends the call, however much it prints,
\* unless its code swallows the exception.
InterruptEnds == signal = "heeded" /\ now = cell /\ cpc # "idle" ~> cpc = "idle"
============================================================================
