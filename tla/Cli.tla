--------------------------------- MODULE Cli ---------------------------------
(***************************************************************************)
(* The tsnmp command (cli/main.py, cli/common.py): the options it takes,   *)
(* refuses and hands to the library, the order in which a handler uses the *)
(* library, and the status it exits with.                                  *)
(***************************************************************************)
EXTENDS ExitStatus, Sequences

CONSTANTS
    Argvs,           \* the command lines
    MaxEvents        \* bound: --count of listen

Manager  == {"get", "walk"}          \* get stands for getnext and getbulk, walk for bulkwalk
Notifier == {"trap", "inform"}
Command  == Manager \union Notifier \union {"listen", "decode", "translate", "version"}

Engine   == {"engineId", "engineBoots", "engineTime"}
Auth     == {"authKey", "authKeyEnv"}
Priv     == {"privKey", "privKeyEnv"}
Usm      == {"username", "authProtocol", "privProtocol"} \union Auth \union Priv
Security == Usm \union Engine \union {"community", "contextName"}

\* the options of the command's parser
Offered(command) ==
    CASE command \in Manager  -> Usm \union {"community", "contextName"}
      [] command \in Notifier -> Security
      [] command = "listen"   -> Usm \union Engine \union {"community"}
      [] command = "decode"   -> Usm
      [] OTHER                -> {}

VARIABLES
    argv,            \* command, version, options with a value, whether the values parse,
                     \* the environment variables named are set, count
    stage,           \* how much of Stages is done
    taken,           \* the options in force in the library object
    status,          \* error_status of the last response
    sent,            \* the request or the notification left
    events,          \* notifications received
    shown,           \* results printed
    cliExit

cliVars == <<argv, stage, taken, status, sent, events, shown, cliExit>>

Argv == [command : Command, version : {"2c", "3"}, options : SUBSET Security,
         parses : BOOLEAN, env : BOOLEAN, count : 0 .. MaxEvents]

ASSUME CliAssumption == MaxEvents \in Nat /\ Argvs \subseteq Argv

NoArgv == [command |-> "version", version |-> "2c", options |-> {}, parses |-> TRUE,
           env |-> TRUE, count |-> 0]

CliInit ==
    /\ argv = NoArgv /\ stage = 0 /\ taken = {}
    /\ status = "none" /\ sent = FALSE /\ events = 0 /\ shown = 0
    /\ cliExit = Success

\* what the handlers do, in their order
Stages ==
    CASE argv.command \in Manager  -> <<"bundle", "security", "open", "exchange", "print">>
      [] argv.command \in Notifier -> <<"bundle", "varbinds", "security", "open", "exchange", "print">>
      [] argv.command = "listen"   -> <<"bundle", "security", "open", "receive">>
      [] argv.command = "decode"   -> <<"bundle", "security", "input", "decode", "print">>
      [] argv.command = "translate" -> <<"bundle", "translate", "print">>
      [] argv.command = "version"  -> <<"print">>

At == IF cliExit = Running THEN Stages[stage] ELSE "over"

\* argparse leaves on an option the command does not have
CliStart(a) ==
    /\ argv' = a /\ stage' = 1 /\ taken' = {}
    /\ status' = "none" /\ sent' = FALSE /\ events' = 0 /\ shown' = 0
    /\ cliExit' = IF a.options \subseteq Offered(a.command) THEN Running ELSE UsageError

\* mutant: the listener does not look for engine options
RefusedWithoutEngine(command) ==
    IF command = "listen" THEN Usm ELSE Usm \union Engine \union {"contextName"}

\* the options that are invalid with --snmp-version 2c: _parse_v2c_cli_security,
\* parse_listener_cli_security, parse_decode_notification_user
RefusedIn2c(command) ==
    CASE command = "decode" -> Usm
      [] command = "listen" -> Usm \union Engine
      [] OTHER              -> Usm \union Engine \union {"contextName"}

Given(names) == argv.options \intersect names

\* _resolve_secret does not raise
SecretResolves(inline, variable) ==
    /\ ~(Given({inline}) # {} /\ Given({variable}) # {})
    /\ Given({variable}) # {} => argv.env

\* _parse_v3_user does not raise
UserAccepted ==
    /\ Given({"username"}) # {}
    /\ SecretResolves("authKey", "authKeyEnv") /\ SecretResolves("privKey", "privKeyEnv")
    /\ Given({"authProtocol"}) # {} <=> Given(Auth) # {}
    /\ Given({"privProtocol"}) # {} <=> Given(Priv) # {}
    /\ Given({"privProtocol"}) # {} => Given({"authProtocol"}) # {}

\* _parse_local_engine does not raise
EngineAccepted ==
    CASE argv.command = "decode" -> TRUE
      [] argv.command \in {"trap", "listen"} -> Given(Engine) = Engine /\ argv.parses
      [] OTHER -> Given(Engine) = {}

\* parse_cli_security, parse_listener_cli_security, parse_decode_notification_user
SecurityAccepted ==
    IF argv.version = "2c"
    THEN Given(RefusedIn2c(argv.command)) = {}
    ELSE Given({"community"}) = {} /\ UserAccepted /\ EngineAccepted

\* what the client, the notifier, the listener or the decoder goes by: a key
\* is of no account without its protocol
InForce ==
    IF argv.version = "2c"
    THEN {"community"}
    ELSE {"username", "authProtocol", "privProtocol"}
           \union (IF Given({"authProtocol"}) # {} THEN Auth ELSE {})
           \union (IF Given({"privProtocol"}) # {} THEN Priv ELSE {})
           \union (IF argv.command \in Manager \union Notifier THEN {"contextName"} ELSE {})
           \union (IF argv.command \in {"trap", "listen"} THEN Engine ELSE {})

\* _manager_from_args, _notifier_from_args, _handle_listen
ParseSecurity ==
    /\ At = "security" /\ SecurityAccepted
    /\ taken' = Given(InForce)
    /\ stage' = stage + 1
    /\ UNCHANGED <<argv, status, sent, events, shown, cliExit>>

\* load_bundle_from_args, parse_notification_varbinds, the opening of the
\* client, the file or --hex, decode_notification, translate
Work ==
    /\ At \in {"bundle", "varbinds", "open", "input", "decode", "translate"}
    /\ At \in {"varbinds", "input"} => argv.parses
    /\ stage' = stage + 1
    /\ UNCHANGED <<argv, taken, status, sent, events, shown, cliExit>>

\* the operation returns: a response, the rows of a walk, the id of a trap;
\* the client is closed
Exchange ==
    /\ At = "exchange"
    /\ sent' = TRUE
    /\ status' \in IF argv.command = "trap" THEN {"none"} ELSE {"noError", "error"}
    /\ stage' = stage + 1
    /\ UNCHANGED <<argv, taken, events, shown, cliExit>>

\* listener.receive returns an event, which is printed; --count 0 is for ever
Receive ==
    /\ At = "receive" /\ argv.count > 0
    /\ events' = events + 1 /\ shown' = shown + 1
    /\ cliExit' = IF events' = argv.count THEN Success ELSE Running
    /\ UNCHANGED <<argv, stage, taken, status, sent>>

\* the commands that return 1 on an error status
StatusCounts == argv.command \in {"get", "inform"}

\* the result is printed and the handler returns
PrintResult ==
    /\ At = "print"
    /\ shown' = shown + 1
    /\ cliExit' = IF StatusCounts /\ status # "noError" THEN Failure ELSE Success
    /\ UNCHANGED <<argv, stage, taken, status, sent, events>>

\* ImportError, OSError, TsnmpError or ValueError anywhere: main returns 1
Raise ==
    /\ cliExit = Running
    /\ cliExit' = Failure
    /\ UNCHANGED <<argv, stage, taken, status, sent, events, shown>>

InterruptCommand ==
    /\ cliExit = Running
    /\ cliExit' = Interrupted
    /\ UNCHANGED <<argv, stage, taken, status, sent, events, shown>>

CliNext ==
    \/ stage = 0 /\ \E a \in Argvs : CliStart(a)
    \/ ParseSecurity \/ Work \/ Exchange \/ Receive \/ PrintResult \/ Raise \/ InterruptCommand

------------------------------------------------------------------------------
\* A command that exits with 0 did what it was asked: a get or an inform was
\* answered without error, a notification left, listen printed --count of
\* them; and it went by every security option it was given, leaving none out.
\* (walk and bulkwalk exit with 0 whatever error status ended them.)
DidAsAsked ==
    cliExit = Success /\ stage > 0 =>
        /\ argv.command \in {"get", "inform"} => status = "noError"
        /\ argv.command \in Manager \union Notifier => sent
        /\ argv.command = "listen" => events = argv.count /\ events > 0
        /\ shown = IF argv.command = "listen" THEN events ELSE 1
        /\ argv.options \subseteq taken
==============================================================================
