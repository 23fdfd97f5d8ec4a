----------------------------- MODULE Arguments -----------------------------
(***************************************************************************)
(* The command line.  Several loops read it, by different rules:           *)
(* ArgumentRegistry::parse checks it and pairs options with values, then   *)
(* Shell::run takes -c and --no-import from the pairs, then main looks for *)
(* --help and for the port in argv itself, whatever parse made of it.  (A  *)
(* loop before these switches DEBUG entries on, see LogLocks.)             *)
(*                                                                         *)
(* An argument that std::stoi accepts stands for its value.                *)
(***************************************************************************)
EXTENDS Naturals, Sequences

CONSTANTS
  Numbers,     \* arguments with a value
  Others,      \* arguments that are neither options nor have a value
  MaxArgs      \* bound on argc - 1

\* std::stoi accepts none of the words that the program knows.
ASSUME ArgumentsAssumption ==
  /\ (Numbers \cup Others) \cap {"--help", "--no-import", "--debug", "-c", "-p", "--port"} = {}
  /\ MaxArgs \in Nat

VARIABLES
  argv,
  at,            \* "parse", "apply", "help", "port", "serve", or the exit "0" or "1"
  pos,           \* the i of the loop
  parsed_args,
  m_debug,       \* of Shell
  numDatabases, noImport, showHelp,
  port

argsVars == <<argv, at, pos, parsed_args, m_debug, numDatabases, noImport, showHelp, port>>

Flags == {"--help", "--no-import", "--debug"}
TakesArg == {"-c", "-p", "--port"}
Words == Flags \cup TakesArg \cup Numbers \cup Others

ArgsInit ==
  /\ argv \in UNION {[1 .. n -> Words] : n \in 0 .. MaxArgs}
  /\ at = "parse" /\ pos = 1 /\ parsed_args = <<>> /\ m_debug = FALSE
  /\ numDatabases = "1" /\ noImport = FALSE /\ showHelp = FALSE
  /\ port = "2409"

\* One turn of parse's loop.  m_debug is set only afterwards, by Apply, so that
\* an unknown argument is always an error.
Parse ==
  /\ at = "parse" /\ pos <= Len(argv)
  /\ UNCHANGED <<argv, m_debug, numDatabases, noImport, showHelp, port>>
  /\ \/ /\ argv[pos] \in Flags
        /\ parsed_args' = Append(parsed_args, argv[pos]) /\ pos' = pos + 1 /\ UNCHANGED at
     \/ /\ argv[pos] \in TakesArg /\ pos < Len(argv)
        /\ parsed_args' = parsed_args \o <<argv[pos], argv[pos + 1]>> /\ pos' = pos + 2 /\ UNCHANGED at
     \/ /\ argv[pos] \in TakesArg /\ pos = Len(argv)
        /\ at' = "1" /\ UNCHANGED <<parsed_args, pos>>
     \/ /\ argv[pos] \notin Flags \cup TakesArg
        /\ IF m_debug THEN pos' = pos + 1 /\ UNCHANGED at ELSE at' = "1" /\ UNCHANGED pos
        /\ UNCHANGED parsed_args

ParseDone ==
  /\ at = "parse" /\ pos > Len(argv)
  /\ at' = "apply" /\ pos' = 1
  /\ UNCHANGED <<argv, parsed_args, m_debug, numDatabases, noImport, showHelp, port>>

\* One turn of Shell::run's loop.
Apply ==
  /\ at = "apply" /\ pos <= Len(parsed_args)
  /\ LET arg == parsed_args[pos]
     IN  /\ pos' = IF arg \in TakesArg THEN pos + 2 ELSE pos + 1
         /\ showHelp' = (showHelp \/ arg = "--help")
         /\ noImport' = (noImport \/ arg = "--no-import")
         /\ m_debug' = (m_debug \/ arg = "--debug")
         /\ IF arg # "-c" THEN UNCHANGED <<numDatabases, at>>
            ELSE IF parsed_args[pos + 1] \in Numbers
            THEN numDatabases' = parsed_args[pos + 1] /\ UNCHANGED at
            ELSE at' = "1" /\ UNCHANGED numDatabases
  /\ UNCHANGED <<argv, parsed_args, port>>

\* Shell::run goes on to the catalogue, which is Catalog's.
ApplyDone ==
  /\ at = "apply" /\ pos > Len(parsed_args)
  /\ at' = (IF showHelp THEN "0" ELSE "help")
  /\ pos' = 1
  /\ UNCHANGED <<argv, parsed_args, m_debug, numDatabases, noImport, showHelp, port>>

\* main ends if --help is anywhere, even as the value of an option.
FindHelp ==
  /\ at = "help"
  /\ at' = (IF \E k \in DOMAIN argv : argv[k] = "--help" THEN "0" ELSE "port")
  /\ UNCHANGED <<argv, pos, parsed_args, m_debug, numDatabases, noImport, showHelp, port>>

\* Faulty: stops at the first port.
FindFirstPort ==
  /\ at = "port" /\ pos <= Len(argv)
  /\ LET found == argv[pos] \in {"-p", "--port"} /\ pos < Len(argv)
     IN  /\ port' = IF found /\ argv[pos + 1] \in Numbers THEN argv[pos + 1] ELSE port
         /\ pos' = IF found THEN Len(argv) + 1 ELSE pos + 1
  /\ UNCHANGED <<argv, at, parsed_args, m_debug, numDatabases, noImport, showHelp>>

\* One turn of main's loop for the port.
FindPort ==
  /\ at = "port" /\ pos <= Len(argv)
  /\ pos' = pos + 1
  /\ port' = IF argv[pos] \in {"-p", "--port"} /\ pos < Len(argv) /\ argv[pos + 1] \in Numbers
             THEN argv[pos + 1] ELSE port
  /\ UNCHANGED <<argv, at, parsed_args, m_debug, numDatabases, noImport, showHelp>>

Listen ==
  /\ at = "port" /\ pos > Len(argv)
  /\ at' = "serve"
  /\ UNCHANGED <<argv, pos, parsed_args, m_debug, numDatabases, noImport, showHelp, port>>

ArgsNext ==
  Parse \/ ParseDone \/ Apply \/ ApplyDone \/ FindHelp \/ FindPort \/ Listen

-----------------------------------------------------------------------------
(* Properties *)

\* Whether argument k is an option, and not the value of the option before it.
IsOption[k \in Nat] ==
  k = 1 \/ (k > 1 /\ ~ (argv[k - 1] \in TakesArg /\ IsOption[k - 1]))

Options == {k \in DOMAIN argv : IsOption[k]}

\* Every option that takes a value has one, and -c a number.
Complete ==
  \A k \in Options : argv[k] \in TakesArg =>
     k < Len(argv) /\ (argv[k] = "-c" => argv[k + 1] \in Numbers)

Unregistered == {k \in Options : argv[k] \notin Flags \cup TakesArg}
Debug == \E k \in Options : argv[k] = "--debug"

WellFormed == Complete /\ Unregistered = {}

\* The value of the last of these options that has one, else the default.
Given(names) == {k \in Options : argv[k] \in names /\ argv[k + 1] \in Numbers}
Asked(names, default) ==
  IF Given(names) = {} THEN default
  ELSE argv[1 + CHOOSE k \in Given(names) : \A l \in Given(names) : l <= k]

PortsValid == \A k \in Options : argv[k] \in {"-p", "--port"} => argv[k + 1] \in Numbers

\* The three loops agree with each other and with the printed usage: a line that
\* serves has all its values and, without --debug, no unregistered argument, and
\* is served with the number of shards, the import and the port that it names,
\* although main reads the values of other options as options, too.  Only a line
\* that is not well-formed is refused, and only --help ends the program silently,
\* if only as the value of an option.  Nothing is said of what becomes of a line
\* with --debug and an unregistered argument (see DebugOnlyWarns), nor of the
\* port if one of the values is none.
ServesAsAsked ==
  /\ at = "serve" =>
        /\ Complete /\ (Unregistered = {} \/ Debug)
        /\ PortsValid => port = Asked({"-p", "--port"}, "2409")
        /\ numDatabases = Asked({"-c"}, "1")
        /\ noImport <=> \E k \in Options : argv[k] = "--no-import"
  /\ at = "1" => ~ WellFormed
  /\ at = "0" => \E k \in DOMAIN argv : argv[k] = "--help"

\* README.md:32: "Debug Mode: Warns on unregistered arguments instead of erroring
\* (with `--debug`)"; so a line with --debug and all its values is never refused.
DebugOnlyWarns == Debug /\ Complete => at # "1"
=============================================================================
