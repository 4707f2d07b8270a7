------------------------------- MODULE Requests --------------------------------
(***************************************************************************)
(* Handler: what becomes of one request, from its target, its body and the *)
(* peer's address to a call of the game server and a response.             *)
(*                                                                         *)
(* Handler::HandleRequest authorises the request against server.cfg, finds *)
(* the one route that matches its target and runs the route's command,     *)
(* which decodes the body once more, now for its own parameters.  There is *)
(* one action per outcome.  A session reads one request; the Handler keeps *)
(* nothing from one to the next.                                           *)
(***************************************************************************)
EXTENDS Config, SequencesExt

CONSTANTS
  Files,      \* server.cfg files
  Targets,    \* request targets, split at "/"
  Remotes,    \* addresses of peers
  Passwords,  \* passwords in request bodies
  Hashes,     \* values of XXH32
  XXH32,      \* the hash of each target, with the configured seed
  Params,     \* parameters in request bodies, sets of fields with their JSON kind
  Times,      \* the values of the field "time", 0 if the body has none
  Thousand,   \* milliseconds in a second
  Word,       \* 2^32, the range of uint32_t
  NoRequest   \* nothing read

ASSUME XXH32Assumption == XXH32 \in [Targets -> Hashes]
ASSUME WordAssumption  ==
  Word \in Nat \ {0} /\ Word % 2 = 0 /\ Thousand \in Nat /\ Times \in SUBSET Nat
ASSUME FilesAssumption ==
  \A lines \in Files : lines \in Lines /\ HasArg(Load(lines), "api_password", 0)

VARIABLES
  file,      \* the server.cfg that Load has read
  request,   \* Session::request_ of the session at hand
  call,      \* what it made the server do: a route and the name in its target
  blocked,   \* the milliseconds given to BlockIpAddress, if it was called
  response   \* status code, message type, and the seconds the message speaks of

vars == <<file, request, call, blocked, response>>

entries == Load(file)

\* The empty string: a segment between two slashes, a response without a type.
Empty == ""

Request ==
  [target : Targets, remote : Remotes, password : Passwords, hash : Hashes,
   params : Params, time : Times]

-----------------------------------------------------------------------------
\* Routes.

\* Handler::RegisterFunctions.
Routes ==
  { <<"player", "list">>, <<"player", "kick", ":name">>, <<"player", "ban", ":name">>,
    <<"misc", "say">>, <<"misc", "echo">>, <<"misc", "ip", "ban">>, <<"misc", "ip", "unban">>,
    <<"settings", "gamemodetext">>, <<"settings", "gravity">>, <<"settings", "weather">>,
    <<"settings", "list">> }

IpBan  == <<"misc", "ip", "ban">>

\* The parameters each route's command decodes (SampTypes.hpp).
Needs ==
  [route \in Routes |->
     CASE route \in {<<"misc", "say">>, <<"misc", "echo">>} ->
            {<<"color", "number">>, <<"name", "string">>, <<"message", "string">>}
       [] route \in {IpBan, <<"misc", "ip", "unban">>} -> {<<"address", "string">>}
       [] route = <<"settings", "gamemodetext">> -> {<<"value", "string">>}
       [] route = <<"settings", "gravity">>      -> {<<"gravity", "number">>}
       [] route = <<"settings", "weather">>      -> {<<"value", "number">>}
       [] OTHER                                  -> {}]

\* Commands that change nothing in the game server, and those that cannot fail.
ReadOnly   == {<<"player", "list">>, <<"settings", "list">>, <<"misc", "echo">>}
NeverFails == ReadOnly \cup {<<"misc", "say">>}
NoCall     == <<>>

IsKey(word) == word = ":name"

\* Mutant: the capture is ([^/]*?).
Matches_Empty(route, target) ==
  /\ Len(route) = Len(target)
  /\ \A i \in 1..Len(route) : IsKey(route[i]) \/ route[i] = target[i]

\* Match::test: literal segments are equal, and a key captures one that is not empty.
Matches(route, target) ==
  /\ Len(route) = Len(target)
  /\ \A i \in 1..Len(route) :
       IF IsKey(route[i]) THEN target[i] # Empty ELSE route[i] = target[i]

\* Match::get("name"): what the key captured, Empty if the route has none.
Name(route, target) == IF IsKey(Last(route)) THEN Last(target) ELSE Empty

-----------------------------------------------------------------------------
\* Handler::Authorize.  The whitelist admits everybody if it has no argument; a body that
\* does not decode has neither password nor hash.
Authorize(req) ==
  LET ips == Args(entries, "api_ip_whitelist")
  IN  /\ ips = <<>> \/ req.remote \in ToSet(ips)
      /\ req.password = Arg(entries, "api_password", 0)
      /\ req.hash = XXH32[req.target]

\* Mutant: the product is computed in 64 bits.
Milliseconds_Wide(time) == time * Thousand

\* Mutant: the seconds are passed on as milliseconds.
Milliseconds_Seconds(time) == time % Word

\* uint32_t arithmetic, and the int that BlockIpAddress takes.
Milliseconds(time) == (time * Thousand) % Word
Signed(word) == IF word < Word \div 2 THEN word ELSE word - Word

Silence == [code |-> 0, type |-> Empty, seconds |-> 0]

NothingDone == call' = <<NoCall, Empty>> /\ blocked' = 0

Answer(code, type, seconds) ==
  /\ response = Silence
  /\ response' = [code |-> code, type |-> type, seconds |-> seconds]
  /\ UNCHANGED <<file, request>>

\* Session::ReadRequest has read a request.
Receive(req) ==
  /\ request = NoRequest
  /\ request' = req
  /\ UNCHANGED <<file, call, blocked, response>>

Unauthorized ==
  /\ ~ Authorize(request)
  /\ NothingDone
  /\ Answer(401, "error", 0)

InvalidRoute ==
  /\ Authorize(request)
  /\ \A route \in Routes : ~ Matches(route, request.target)
  /\ NothingDone
  /\ Answer(404, "error", 0)

\* RouteHandler catches the decode_exception of the command, before it has done anything;
\* the type of the response stays empty.
Undecodable(route) ==
  /\ Authorize(request)
  /\ Matches(route, request.target)
  /\ ~ Needs[route] \subseteq request.params
  /\ NothingDone
  /\ Answer(500, Empty, 0)

\* The command's native, or PlayerManager, reports a failure.
Fails(route) ==
  /\ Authorize(request)
  /\ Matches(route, request.target)
  /\ Needs[route] \subseteq request.params
  /\ route \notin NeverFails
  /\ NothingDone
  /\ Answer(417, "error", 0)

Succeeds(route) ==
  /\ Authorize(request)
  /\ Matches(route, request.target)
  /\ Needs[route] \subseteq request.params
  /\ call' = <<IF route \in ReadOnly THEN NoCall ELSE route, Name(route, request.target)>>
  /\ blocked' = IF route = IpBan THEN Signed(Milliseconds(request.time)) ELSE 0
  /\ Answer(200, "response", IF route = IpBan THEN Milliseconds(request.time) ELSE 0)

\* The response is written; the next request comes with a session of its own.
Written ==
  /\ response # Silence
  /\ request' = NoRequest
  /\ call' = <<NoCall, Empty>>
  /\ blocked' = 0
  /\ response' = Silence
  /\ UNCHANGED file

-----------------------------------------------------------------------------
\* Load has read the file, which has the required password, and no request has come.
Init ==
  /\ file \in Files
  /\ request = NoRequest
  /\ call = <<NoCall, Empty>>
  /\ blocked = 0
  /\ response = Silence

Handle ==
  /\ request # NoRequest
  /\ \/ Unauthorized \/ InvalidRoute
     \/ \E route \in Routes : Undecodable(route) \/ Fails(route) \/ Succeeds(route)

Next == Handle \/ Written \/ \E req \in Request : Receive(req)

Spec == Init /\ [][Next]_vars

-----------------------------------------------------------------------------
\* Properties.

TypeOK ==
  /\ file \in Files
  /\ request \in Request \cup {NoRequest}
  /\ call[1] \in Routes \cup {NoCall}
  /\ blocked \in -(Word \div 2) .. Word \div 2 - 1
  /\ response.code \in {0, 200, 401, 404, 417, 500}
  /\ response.type \in {Empty, "error", "response"}
  /\ response.seconds \in 0 .. Word - 1

Called == call[1] # NoCall

\* The arguments of an option in the file: those of the first line that gives it any.
Given(option) ==
  IF Defining(file, option) = {} THEN {}
  ELSE LET line == file[First(file, option)] IN {line[k] : k \in 2..Len(line)}

\* What server.cfg asks of a request: a peer that the first whitelist line lists, if there is
\* one, the first password, and a hash of this very target.
Entitled(req) ==
  /\ Given("api_ip_whitelist") = {} \/ req.remote \in Given("api_ip_whitelist")
  /\ req.password = file[First(file, "api_password")][2]
  /\ req.hash = XXH32[req.target]

\* Whatever server.cfg repeats or leaves blank, exactly the requests it entitles are let through
\* to the routes; to all others nothing is said but 401, whether the route reads, changes
\* something or does not exist, and nothing is done (Config::Load, Handler::Authorize and
\* HandleRequest).
CommandsAllowed ==
  /\ response # Silence => (response.code # 401 <=> Entitled(request))
  /\ Called => response.code = 200

\* A kick or ban always names somebody: no target reaches PlayerManager with the empty name
\* that Match::get returns for a key it does not have (Route.cpp and Handler.cpp).
NamesAPlayer ==
  Called /\ call[1][1] = "player" => call[2] # Empty

\* A ban that fits an int of milliseconds is made for exactly the seconds asked for, whatever
\* was asked before; a longer one may wrap (misc::ipban).
BanLength ==
  call[1] = IpBan /\ request.time * Thousand < Word \div 2
    => blocked = request.time * Thousand

\* The answer to a ban speaks of "time: {} seconds": the seconds asked for.
SecondsAreSeconds == call[1] = IpBan => response.seconds = request.time

\* The parameters the README documents for each route.
Readme ==
  [route \in Routes |->
     CASE route = IpBan                      -> {<<"ip", "string">>}
       [] route = <<"misc", "ip", "unban">>  -> {<<"ip", "string">>}
       [] route = <<"settings", "gravity">>  -> {<<"value", "number">>}
       [] OTHER                              -> Needs[route]]

\* A request with the documented parameters is never answered as invalid.
ReadmeHolds ==
  response.code = 500 =>
    \A route \in Routes : Matches(route, request.target) => ~ Readme[route] \subseteq request.params
===============================================================================
