------------------------------- MODULE WaitArgs -------------------------------
(***************************************************************************)
(* The loop of plugin/scripts/chain-wait.sh over its arguments.            *)
(*                                                                         *)
(* A word is seen as what it would name, the id, and what it would last,   *)
(* the duration.                                                           *)
(***************************************************************************)
EXTENDS ChainState, Durations

\* An argument: --timeout, --timeout=, --help, another flag, or a plain word.
\* As an id it is id, which is NoId for the empty word; as a duration it is text.
Flags == {"--timeout", "--timeout=", "--help", "--", "none"}

Argument(flag, id, text) == [flag |-> flag, id |-> id, text |-> text]

NoArguments == [id |-> NoId, duration |-> Empty, flag |-> "none", end |-> "none"]

\* The loop, one argument further.  It is over once there is an end: the usage,
\* with exit code 0, or an error.
ReadArgument(line, arg) ==
  CASE line.end # "none" -> line
    [] line.end = "none" /\ line.flag = "--timeout" ->
         [line EXCEPT !.duration = arg.text, !.flag = "none"]
    [] line.end = "none" /\ line.flag = "none" ->
         CASE arg.flag = "--timeout"  -> [line EXCEPT !.flag = arg.flag]
           [] arg.flag = "--timeout=" -> [line EXCEPT !.duration = arg.text]
           [] arg.flag = "--help"     -> [line EXCEPT !.end = "help"]
           [] arg.flag = "--"         -> [line EXCEPT !.end = "error"]
           [] arg.flag = "none"       ->
                IF line.id = NoId THEN [line EXCEPT !.id = arg.id]
                                  ELSE [line EXCEPT !.end = "error"]

Parse(args) ==
  LET line[n \in 0 .. Len(args)] ==
        IF n = 0 THEN NoArguments ELSE ReadArgument(line[n - 1], args[n])
  IN  line[Len(args)]

\* The command line is one the script goes on with.
Accepted(line) ==
  /\ line.end = "none" /\ line.flag = "none" /\ line.id # NoId
  /\ ~ Refused(line.duration)

===============================================================================
