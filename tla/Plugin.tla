-------------------------------- MODULE Plugin ---------------------------------
(***************************************************************************)
(* The life of the plugin in the game server's process: Load with each of  *)
(* its ways to fail, the callbacks and ticks of a loaded plugin, Unload.   *)
(*                                                                         *)
(* The plugin lives in global pointers.  Load makes them one after the     *)
(* other and leaves early, by returning false or by an exception that      *)
(* nothing catches; whatever it has made stays.  The server calls the rest *)
(* of the plugin only after Load has returned true, and Unload last.       *)
(***************************************************************************)
EXTENDS Config

CONSTANTS
  Files,       \* server.cfg files
  Unreadable,  \* no server.cfg
  Number,      \* the integer that a word starts with, if it does, whatever its size
  Ports,       \* 2^16, the range of a port
  Words,       \* 2^32, the range of int and uint32_t
  Longs,       \* 2^32 or 2^64, the range of unsigned long
  InUse,       \* the sets of ports that other processes may have bound
  DebugBuild   \* is _DEBUG defined?

ASSUME FilesAssumption  == Files \subseteq Lines
ASSUME PortsAssumption  == Ports \in Nat /\ Ports > 1 /\ InUse \subseteq SUBSET (1..Ports - 1)
ASSUME WidthAssumption  ==
  /\ Words \in Nat \ {0} /\ Words % Ports = 0
  /\ Longs \in Nat \ {0} /\ Longs % Words = 0
ASSUME NumberAssumption == \A word \in DOMAIN Number : Number[word] \in Int
ASSUME BuildAssumption  == DebugBuild \in BOOLEAN

VARIABLES
  env,        \* the process: server.cfg, ports in use, the disk, sampgdk
  phase,      \* "new", "loaded", "refused", "thrown" or "gone"
  made,       \* the globals that point to an object
  logger,     \* Log::m_Logger: "unset" (uninitialised) or "open"
  ready,      \* the flag of the gamemode callbacks
  listening,  \* the port the acceptor is bound to, NoPort if there is none
  settings,   \* Handler::password_ and seed_
  said,       \* what the server's output was told
  wild        \* has a pointer been used that points nowhere?

vars == <<env, phase, made, logger, ready, listening, settings, said, wild>>

NoPort   == -1
Nothing  == [password |-> "", seed |-> 0]
Messages == {"no log", "no config", "no password", "listening"}
Globals  == {"playerManager", "Logger", "sampConfig", "io_service", "e"}

\* What the process may look like.  "logs" is a directory, a file, or not there.
Environment ==
  [config : Files \cup {Unreadable}, used : InUse, logs : {"directory", "file", "absent"},
   writable : BOOLEAN, sampgdk : BOOLEAN]

-----------------------------------------------------------------------------
\* OpenLog.

\* Log::CheckPath for logs/api.log: create_directories throws if it may not create.
PathThrows == env.logs = "absent" /\ ~ env.writable

\* The daily file sink opens its file, or throws the spdlog_ex that RegisterLogSink catches.
SinkOpens == env.logs # "file" /\ env.writable

-----------------------------------------------------------------------------
\* server.cfg.

entries == Load(env.config)

\* Config::Get with a default.
ArgOr(option, default) ==
  IF HasArg(entries, option, 0) THEN Arg(entries, option, 0) ELSE default

port == ArgOr("api_port", "7778")
seed == ArgOr("api_seed", "17733194")

\* stoi throws on a word without a number and on one beyond an int; stoul on one beyond an
\* unsigned long, but it takes a minus sign and counts down from 2^32 or 2^64.
IsInt(word) ==
  word \in DOMAIN Number /\ Number[word] \in -(Words \div 2) .. Words \div 2 - 1
IsULong(word) ==
  word \in DOMAIN Number /\ Number[word] \in 1 - Longs .. Longs - 1

\* Mutant: the port is taken as it is.
Narrowed_Kept(number) == number

\* An int made the uint32_t of Endpoint's constructor, then the 16 bits of its endpoint.
Narrowed(number) == (number % Words) % Ports

\* What stoul returns, made the uint32_t of SetSeed.
Seed(number) == (number % Longs) % Words

\* The ports that bind can give: any free one for 0.
Bindable(p) == (IF p = 0 THEN 1..Ports - 1 ELSE {p}) \ env.used

-----------------------------------------------------------------------------
\* Load, up to each of its ends.

\* SAMP_INFO through the sinks of m_Logger, of which one is the server's output.
Tell(message) ==
  /\ said' = said \cup {message}
  /\ wild' = (wild \/ logger' # "open" \/ "Logger" \notin made')

Quiet == UNCHANGED <<said, wild>>

Ends(result, globals) ==
  /\ phase = "new"
  /\ phase' = result
  /\ made' = globals
  /\ UNCHANGED <<env, ready>>

NoEndpoint == listening' = NoPort /\ settings' = Nothing

\* OpenLog does not catch what CheckPath throws.
LoadLogThrows ==
  /\ PathThrows
  /\ Ends("thrown", {"playerManager", "Logger"})
  /\ logger' = "unset"
  /\ NoEndpoint /\ Quiet

\* OpenLog returns false; logprintf in place of the log.
LoadWithoutLog ==
  /\ ~ PathThrows /\ ~ SinkOpens
  /\ Ends("refused", {"playerManager", "Logger"})
  /\ logger' = "unset"
  /\ said' = said \cup {"no log"}
  /\ NoEndpoint
  /\ UNCHANGED wild

\* Mutant: OpenLog sets the logger up only after server.cfg has been read.
LoadWithoutConfig_SetupLate ==
  /\ ~ PathThrows /\ SinkOpens
  /\ env.config = Unreadable
  /\ Ends("refused", {"playerManager", "Logger", "sampConfig"})
  /\ logger' = "unset"
  /\ NoEndpoint
  /\ Tell("no config")

LoadWithoutConfig ==
  /\ ~ PathThrows /\ SinkOpens
  /\ env.config = Unreadable
  /\ Ends("refused", {"playerManager", "Logger", "sampConfig"})
  /\ logger' = "open"
  /\ NoEndpoint
  /\ Tell("no config")

Opened == ~ PathThrows /\ SinkOpens /\ env.config # Unreadable /\ logger' = "open"

\* Mutant: the password is looked up once the Endpoint is there.
LoadWithoutPassword_Late ==
  /\ Opened
  /\ ~ HasArg(entries, "api_password", 0)
  /\ IsInt(port)
  /\ listening' \in Bindable(Narrowed(Number[port]))
  /\ settings' = Nothing
  /\ Ends("refused", Globals)
  /\ Tell("no password")

LoadWithoutPassword ==
  /\ Opened
  /\ ~ HasArg(entries, "api_password", 0)
  /\ Ends("refused", {"playerManager", "Logger", "sampConfig", "io_service"})
  /\ NoEndpoint
  /\ Tell("no password")

HasPassword == Opened /\ HasArg(entries, "api_password", 0)

\* stoi throws, or the acceptor's constructor on a port in use.
LoadWithoutPort ==
  /\ HasPassword
  /\ IsInt(port) => Bindable(Narrowed(Number[port])) = {}
  /\ Ends("thrown", {"playerManager", "Logger", "sampConfig", "io_service"})
  /\ NoEndpoint /\ Quiet

\* The Endpoint is made and holds the port; then stoul throws.
LoadWithoutSeed ==
  /\ HasPassword
  /\ IsInt(port)
  /\ listening' \in Bindable(Narrowed(Number[port]))
  /\ ~ IsULong(seed)
  /\ settings' = [Nothing EXCEPT !.password = Arg(entries, "api_password", 0)]
  /\ Ends("thrown", Globals)
  /\ Quiet

\* Everything is there; the result is that of sampgdk::Load.
LoadCompletes ==
  /\ HasPassword
  /\ IsInt(port) /\ IsULong(seed)
  /\ listening' \in Bindable(Narrowed(Number[port]))
  /\ settings' = [password |-> Arg(entries, "api_password", 0), seed |-> Seed(Number[seed])]
  /\ Ends(IF env.sampgdk THEN "loaded" ELSE "refused", Globals)
  /\ Tell("listening")

-----------------------------------------------------------------------------
\* A loaded plugin.

Uses(globals) == wild' = (wild \/ ~ globals \subseteq made)

\* SAMP_DEBUG, which is nothing in a release build.
Debug ==
  wild' = (wild \/ (DebugBuild /\ (logger # "open" \/ "Logger" \notin made)))

GameMode(up) ==
  /\ phase = "loaded"
  /\ ready' = up
  /\ Debug
  /\ UNCHANGED <<env, phase, made, logger, listening, settings, said>>

OnGameModeInit == GameMode(TRUE)
OnGameModeExit == GameMode(FALSE)

\* OnPlayerConnect and OnPlayerDisconnect.
OnPlayer ==
  /\ phase = "loaded"
  /\ Uses({"playerManager"})
  /\ UNCHANGED <<env, phase, made, logger, ready, listening, settings, said>>

\* poll() runs handlers, which may use every global and log.
ProcessTick ==
  /\ phase = "loaded"
  /\ ready
  /\ Uses(Globals)
  /\ UNCHANGED <<env, phase, made, logger, ready, listening, settings, said>>

\* Endpoint and m_Logger stay as they are: DropLoggers drops the loggers registered with
\* spdlog, which m_Logger never is.
Unload ==
  /\ phase = "loaded"
  /\ Uses({"io_service", "Logger"})
  /\ phase' = "gone"
  /\ made' = made \ {"io_service", "sampConfig", "playerManager", "Logger"}
  /\ UNCHANGED <<env, logger, ready, listening, settings, said>>

-----------------------------------------------------------------------------
Init ==
  /\ env \in Environment
  /\ phase = "new"
  /\ made = {}
  /\ logger = "unset"
  /\ ready = FALSE
  /\ listening = NoPort
  /\ settings = Nothing
  /\ said = {}
  /\ wild = FALSE

Loading ==
  \/ LoadLogThrows \/ LoadWithoutLog \/ LoadWithoutConfig \/ LoadWithoutPassword
  \/ LoadWithoutPort \/ LoadWithoutSeed \/ LoadCompletes

Next ==
  \/ Loading
  \/ OnGameModeInit \/ OnGameModeExit \/ OnPlayer \/ ProcessTick
  \/ Unload

Spec == Init /\ [][Next]_vars

-----------------------------------------------------------------------------
\* Properties.

\* The passwords that the files may give, and the one of a Handler that was given none.
Passwords ==
  LET giving == {file \in Files : Defining(file, "api_password") # {}}
  IN  {""} \cup {file[First(file, "api_password")][2] : file \in giving}

\* Every variable has its type: a port is below 2^16 however it was written, a seed below 2^32.
TypeOK ==
  /\ env \in Environment
  /\ phase \in {"new", "loaded", "refused", "thrown", "gone"}
  /\ made \subseteq Globals
  /\ logger \in {"unset", "open"}
  /\ ready \in BOOLEAN
  /\ listening \in {NoPort} \cup 1..Ports - 1
  /\ settings \in [password : Passwords, seed : 0..Words - 1]
  /\ said \subseteq Messages
  /\ wild \in BOOLEAN

\* On no path through Load, the callbacks, a tick or Unload is a global used that is null or
\* deleted, nor the logger before SetupDefaultLogger has initialised it (Api.cpp, Log.hpp).
MadeBeforeUse == ~ wild

\* What the file says of an option: the word after the first blank of its first line with one.
Configured(option, default) ==
  IF Defining(env.config, option) = {} THEN default
  ELSE env.config[First(env.config, option)][2]

\* A plugin the server goes on to call is whole: every global made, the password that server.cfg
\* gives first handed on, a seed of 32 bits congruent to the number the first api_seed starts with
\* whatever its sign and size, and a free port held that is congruent to the first api_port,
\* unless that one is congruent to 0 (Load, Config::Load and Get).
LoadedIsWhole ==
  phase = "loaded" =>
    LET asked == Number[Configured("api_port", "7778")]
        given == Number[Configured("api_seed", "17733194")]
    IN  /\ made = Globals /\ logger = "open"
        /\ settings.password = Configured("api_password", "")
        /\ (settings.seed - given) % Words = 0
        /\ listening \in 1..Ports - 1 \ env.used
        /\ asked % Ports = 0 \/ (listening - asked) % Ports = 0

\* Could the port that the file asks for be bound?
PortFree ==
  LET word == Configured("api_port", "7778")
  IN  /\ IsInt(word)
      /\ \E p \in 1..Ports - 1 \ env.used :
           Number[word] % Ports = 0 \/ (p - Number[word]) % Ports = 0

\* What each way to give up leaves behind.  A Load that returns false by its own checks holds no
\* port and has said exactly what was missing first; one that does so for sampgdk has said that
\* it listens and holds the port.  An exception leaves nothing said: either the log's directory
\* cannot be made or the port is not to be had, and no port is held, or the seed is no number of
\* its width, and the port is held.  After Unload it is held still (Load, OpenLog and Unload).
GivenUp ==
  /\ phase = "refused" /\ listening = NoPort =>
       said = {IF ~ SinkOpens THEN "no log" ELSE IF env.config = Unreadable THEN "no config"
               ELSE IF Defining(env.config, "api_password") = {} THEN "no password" ELSE "nothing"}
  /\ phase = "refused" /\ listening # NoPort => ~ env.sampgdk /\ said = {"listening"}
  /\ phase = "thrown" =>
       /\ said = {}
       /\ IF listening = NoPort THEN PathThrows \/ ~ PortFree
          ELSE ~ IsULong(Configured("api_seed", "17733194"))
  /\ phase = "gone" => listening # NoPort
===============================================================================
