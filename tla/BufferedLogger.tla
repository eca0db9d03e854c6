---------------------------- MODULE BufferedLogger ----------------------------
(***************************************************************************)
(* pkg/logging/buffered-logger.go: what a game writes on stdout or stderr  *)
(* goes to a file of the session and, line by line, to the log.  Write     *)
(* adds the text to a buffer and lets a bufio.Scanner read one line of it. *)
(* A line is abstracted to its place in the order.                         *)
(***************************************************************************)
EXTENDS Naturals

CONSTANT MaxWrites   \* bound: writes of a session

VARIABLES
    logs,        \* the file: "nil" before createLogStreams, "open" or "closed"
    inFile,      \* whole lines in the file
    unread,      \* whole lines in the buffer that the scanner has not returned
    partial,     \* the buffer ends in an unfinished line
    scanEnded,   \* the scanner met the end of the buffer: it never reads again
    logged,      \* whole lines handed to the log
    \* History: how many writes there were, and whether one was not exactly a line.
    writes, ragged

streamVars == <<inFile, unread, partial, scanEnded, logged, writes, ragged>>

LogInit ==
    /\ logs = "nil"
    /\ inFile = 0 /\ unread = 0 /\ partial = FALSE /\ scanEnded = FALSE /\ logged = 0
    /\ writes = 0 /\ ragged = FALSE

\* A chunk of output: the lines it completes, and whether it leaves one unfinished.
Chunk == [lines : 0..2, rest : BOOLEAN] \ {[lines |-> 0, rest |-> FALSE]}

\* Mutant: the buffer is scanned before the text is added to it.
ScanBefore(lines, rest) ==
    /\ scanEnded' = (scanEnded \/ unread = 0)
    /\ logged' = IF ~scanEnded /\ unread > 0 THEN logged + 1 ELSE logged
    /\ unread' = IF ~scanEnded /\ unread > 0 THEN lines - 1 ELSE lines
    /\ partial' = rest

\* One Scan of the buffer that now holds this many lines and perhaps a rest.  Without
\* a whole line the scanner returns the rest as its last token.
Scan(lines, rest) ==
    LET found == ~scanEnded /\ lines > 0
        last  == ~scanEnded /\ lines = 0
    IN  /\ logged' = IF found THEN logged + 1 ELSE logged
        /\ unread' = IF found THEN lines - 1 ELSE lines
        /\ scanEnded' = (scanEnded \/ last)
        /\ partial' = (rest /\ ~last)

Write(k) ==
    /\ logs = "open" /\ writes < MaxWrites
    /\ inFile' = inFile + k.lines
    /\ writes' = writes + 1
    /\ ragged' = (ragged \/ k # [lines |-> 1, rest |-> FALSE])
    /\ Scan(unread + k.lines, k.rest)
    /\ logs' = logs

\* The write to a closed file fails, and nothing is buffered or logged.
WriteFails == logs = "closed" /\ UNCHANGED <<logs, streamVars>>

Open == logs' = "open" /\ UNCHANGED streamVars

\* The flag closed is never set: a second Close flushes again and fails on the file.
Close ==
    /\ logs' = IF logs = "open" THEN "closed" ELSE logs
    /\ UNCHANGED streamVars
=============================================================================
