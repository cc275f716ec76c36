----------------------------- MODULE LogStream ------------------------------
(***************************************************************************)
(* One log stream: the journalctl child, the goroutine that copies its     *)
(* output into a pipe, the one that scans the pipe for lines, and the      *)
(* handler that sends them to the browser.  Whoever stops first, the other *)
(* three have to follow.                                                   *)
(***************************************************************************)
EXTENDS Naturals, Sequences

CONSTANTS
    MaxLines,   \* bound: lines the unit logs
    Stdout,     \* lines the child's stdout holds
    Cap,        \* lines lineCh holds (64)
    Long        \* lines longer than the scanner's buffer

ASSUME StreamAssumption ==
    MaxLines \in Nat /\ Stdout \in Nat \ {0} /\ Cap \in Nat \ {0} /\ Long \subseteq 1..MaxLines

VARIABLES
    child,      \* "new", "run", "dead"
    stdout, wrote,      \* what it has written and not been read; how many lines so far
    streamer,   \* "start", "read", "write", "wait", "done"
    held,       \* the line the streamer is writing into the pipe
    pipe,       \* "open", or "closed" for both sides
    scanner,    \* "read", "send", "done"
    line,       \* the line the scanner is sending
    lineCh, chClosed, scanErr,  \* the channels; scanErr: whether an error was left there
    main,       \* "select", "write", "drain", "done"
    out,        \* what main is writing: a line, or 0 for a ping
    sent,       \* lines the browser has got
    ctx,        \* whether the context is done
    cause       \* history: what ended the stream early

pipeline == <<child, stdout, wrote, streamer, held>>
scan == <<scanner, line, lineCh, chClosed, scanErr>>
streamVars == <<pipeline, pipe, scan, main, out, sent, ctx, cause>>

\* ServeSSE once the headers are out: before that nothing has been started.
StreamInit ==
    /\ child = "new" /\ stdout = << >> /\ wrote = 0 /\ streamer = "start" /\ held = 0
    /\ pipe = "open" /\ scanner = "read" /\ line = 0 /\ lineCh = << >> /\ chClosed = FALSE
    /\ scanErr = FALSE /\ main = "select" /\ out = 0 /\ sent = << >> /\ ctx = FALSE /\ cause = {}

----------------------------------------------------------------------------
\* The world: the client leaves, the hour is over, the unit logs, journalctl ends.

EndBy(why) ==
    /\ ~ctx /\ ctx' = TRUE /\ cause' = cause \cup {why}
    /\ UNCHANGED <<pipeline, pipe, scan, main, out, sent>>
Leave == EndBy("left")
Expire == EndBy("expired")

Log ==
    /\ child = "run" /\ wrote < MaxLines /\ Len(stdout) < Stdout
    /\ wrote' = wrote + 1 /\ stdout' = Append(stdout, wrote')
    /\ UNCHANGED <<child, streamer, held, pipe, scan, main, out, sent, ctx, cause>>
Exit ==
    /\ child = "run" /\ child' = "dead"
    /\ UNCHANGED <<stdout, wrote, streamer, held, pipe, scan, main, out, sent, ctx, cause>>
\* exec.CommandContext kills the child when the context is done.
Kill ==
    /\ child = "run" /\ ctx /\ child' = "dead"
    /\ UNCHANGED <<stdout, wrote, streamer, held, pipe, scan, main, out, sent, ctx, cause>>

----------------------------------------------------------------------------
\* The streamer goroutine: start the child, copy until its output or the pipe is
\* closed, wait for it, close the pipe.

StreamStart ==
    /\ streamer = "start"
    /\ \/ child' = "run" /\ streamer' = "read" /\ UNCHANGED cause
       \/ child' = "dead" /\ streamer' = "wait" /\ cause' = cause \cup {"start"}
    /\ UNCHANGED <<stdout, wrote, held, pipe, scan, main, out, sent, ctx>>
StreamRead ==
    /\ streamer = "read"
    /\ \/ stdout # << >> /\ held' = Head(stdout) /\ stdout' = Tail(stdout) /\ streamer' = "write"
       \/ stdout = << >> /\ child = "dead" /\ streamer' = "wait" /\ UNCHANGED <<held, stdout>>
    /\ UNCHANGED <<child, wrote, pipe, scan, main, out, sent, ctx, cause>>
\* A write into a closed pipe fails; otherwise it waits for the scanner to read.
StreamBroken ==
    /\ streamer = "write" /\ pipe = "closed"
    /\ streamer' = "wait"
    /\ UNCHANGED <<child, stdout, wrote, held, pipe, scan, main, out, sent, ctx, cause>>
\* Mutant: the streamer cancels the context when the child is gone.
StreamEndCancels ==
    /\ streamer = "wait" /\ child = "dead"
    /\ streamer' = "done" /\ pipe' = "closed" /\ ctx' = TRUE
    /\ UNCHANGED <<child, stdout, wrote, held, scan, main, out, sent, cause>>
StreamEnd ==
    /\ streamer = "wait" /\ child = "dead"
    /\ streamer' = "done" /\ pipe' = "closed"
    /\ UNCHANGED <<child, stdout, wrote, held, scan, main, out, sent, ctx, cause>>

----------------------------------------------------------------------------
\* The scanner goroutine: a line too long and the end of the pipe both end it, with
\* the error in scanErrCh before lineCh is closed.

ScanRead ==
    /\ scanner = "read" /\ streamer = "write" /\ pipe = "open"
    /\ streamer' = "read"
    /\ IF held \in Long
       THEN scanner' = "done" /\ scanErr' = TRUE /\ chClosed' = TRUE /\ cause' = cause \cup {"long"}
            /\ UNCHANGED line
       ELSE scanner' = "send" /\ line' = held /\ UNCHANGED <<scanErr, chClosed, cause>>
    /\ UNCHANGED <<child, stdout, wrote, held, pipe, lineCh, main, out, sent, ctx>>
ScanEnd ==
    /\ scanner = "read" /\ pipe = "closed"
    /\ scanner' = "done" /\ chClosed' = TRUE /\ scanErr' \in BOOLEAN
    /\ UNCHANGED <<pipeline, pipe, line, lineCh, main, out, sent, ctx, cause>>
ScanSend ==
    /\ scanner = "send"
    /\ \/ Len(lineCh) < Cap /\ lineCh' = Append(lineCh, line) /\ scanner' = "read"
       \/ ctx /\ scanner' = "done" /\ UNCHANGED lineCh
    /\ UNCHANGED <<pipeline, pipe, line, chClosed, scanErr, main, out, sent, ctx, cause>>

----------------------------------------------------------------------------
\* The handler.  Returning cancels the context.

\* Mutant: the context's end is not passed on to the pipe.
CtxDoneKeepsPipe ==
    /\ main = "select" /\ ctx
    /\ main' = "done"
    /\ UNCHANGED <<pipeline, pipe, scan, out, sent, ctx, cause>>
CtxDone ==
    /\ main = "select" /\ ctx
    /\ main' = "done" /\ pipe' = "closed"
    /\ UNCHANGED <<pipeline, scan, out, sent, ctx, cause>>
TakeLine ==
    /\ main = "select" /\ lineCh # << >>
    /\ main' = "write" /\ out' = Head(lineCh) /\ lineCh' = Tail(lineCh)
    /\ UNCHANGED <<pipeline, pipe, scanner, line, chClosed, scanErr, sent, ctx, cause>>
Ping ==
    /\ main = "select" /\ main' = "write" /\ out' = 0
    /\ UNCHANGED <<pipeline, pipe, scan, sent, ctx, cause>>
Drained ==
    /\ main = "select" /\ lineCh = << >> /\ chClosed
    /\ main' = "drain" /\ pipe' = "closed"
    /\ UNCHANGED <<pipeline, scan, out, sent, ctx, cause>>
ScanErr ==
    /\ main = "drain" /\ scanner = "done"
    /\ main' = "done" /\ ctx' = TRUE
    /\ UNCHANGED <<pipeline, pipe, scan, out, sent, cause>>
\* A stuck client runs into the deadline of the write.
Write ==
    /\ main = "write"
    /\ \/ /\ main' = "select" /\ sent' = IF out = 0 THEN sent ELSE Append(sent, out)
          /\ UNCHANGED <<pipe, ctx, cause>>
       \/ /\ main' = "done" /\ pipe' = "closed" /\ ctx' = TRUE /\ cause' = cause \cup {"write"}
          /\ UNCHANGED sent
    /\ UNCHANGED <<pipeline, scan, out>>

Streamer == StreamStart \/ StreamRead \/ StreamBroken \/ StreamEnd
Scanner == ScanRead \/ ScanEnd \/ ScanSend
Main == TakeLine \/ Ping \/ Drained \/ ScanErr \/ Write
StreamNext == Leave \/ Expire \/ Log \/ Exit \/ Kill \/ Streamer \/ Scanner \/ Main \/ CtxDone

\* The goroutines run, the hour passes, a kill arrives.  select picks at random among
\* what is ready, so a context that is done is not passed over for ever.  Nothing is
\* asked of the client or of journalctl.
StreamFairness ==
    /\ WF_streamVars(Streamer) /\ WF_streamVars(Scanner) /\ WF_streamVars(Main)
    /\ SF_streamVars(CtxDone)
    /\ WF_streamVars(Kill) /\ WF_streamVars(Expire)
StreamSpec == StreamInit /\ [][StreamNext]_streamVars /\ StreamFairness

----------------------------------------------------------------------------
\* Properties

\* A stream journalctl itself ends has sent every line it wrote, in order: the lines
\* still in the pipe and in the channel are not lost to the end of the stream.  What
\* was sent is in order in any case.
NothingLost ==
    /\ sent = [i \in 1..Len(sent) |-> i]
    /\ main = "done" /\ cause = {} => sent = [i \in 1..wrote |-> i]

\* Every stream ends, with its child and its goroutines, even if the client stays and
\* the unit never stops logging.
AllEnd == <>[](child = "dead" /\ streamer = "done" /\ scanner = "done" /\ main = "done")
=============================================================================
