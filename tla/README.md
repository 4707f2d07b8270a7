# Verification of samp-plugin-api

TLA+ models of the plugin that gives a San Andreas Multiplayer (SA-MP) server an HTTP/JSON
API, TLC configurations that check them, and theorems proved with TLAPS.  Paths below are
relative to `src/src/`.

## The system

The plugin is a shared library of the game server.  It has no thread of its own: the server
calls it on its main thread, through callbacks (`OnGameModeInit`, `OnPlayerConnect`, ...) and
through `ProcessTick`, which runs whatever Boost.Asio completion handlers are queued.  So
there are no data races; what is concurrent is the environment: peers, timers and the
operating system complete operations while no handler looks, and the game server changes
the player pool between two requests.

| part | state | operations | interacts with |
|---|---|---|---|
| Endpoint, Session, SessionManager (`api/Endpoint.*`, `Session.*`, `SessionManager.*`) | the acceptor and its one `socket_`; per session a socket, a read, a write and a 60 s deadline; the set of sessions | accept, read, process, write, deadline handlers | run by ProcessTick; call the Handler |
| Plugin lifecycle (`api/Api.cpp`) | `ready`, `io_service`, `e`, `sampConfig`, `playerManager`, `Logger` | Load, Unload, gamemode and player callbacks, ProcessTick | creates and drives all the rest |
| PlayerManager, Player (`api/Player*`) | `players_`: id -> login | AddPlayer, RemovePlayer, GetPlayerData, Kick, Ban | the server's player pool; called by Handler and Api |
| Handler (`api/Handler.*`, `Types.hpp`, `SampTypes.hpp`) | password, seed, routes | HandleRequest, Authorize, eleven commands | PlayerManager, Config, Route, XXH32, server natives |
| Route, Match (`api/Route.*`) | the present URL, a cache | set, test, get | Handler |
| Config (`api/Config.*`) | entries of server.cfg | Load, Get (three forms) | Api, Handler |
| Log (`share/log/*`, `api/LogSink.*`) | sinks, `m_Logger` and its buffer | register, set up, drop | Api, Handler, Session (debug build) |
| xxHash (`share/xxhash.*`, vendored) | a streaming state: counter, accumulators, buffer | XXH32, XXH64; create, reset, update, digest, copy, free; canonical forms | Handler, which calls XXH32 only |
| FieldsAlloc (`api/FieldsAlloc.hpp`, from a Beast example) | a pool, its position and its two counts | copy and destroy a handle, allocate, deallocate | included by Session.hpp, not used yet |

What is hard, and what makes each part correct:

* **Sessions.**  Two handlers of one session can be queued in the same tick and run in either
  order (deadline and read; cancel and expiry); a peer can reset at any time;
  descriptors are finite; a tick runs until no handler is queued.  Correct: no session without
  a deadline, the steps of an exchange in order, one reply at most, no command outside a
  gamemode, every session ends, every tick returns.
* **Players.**  The registry shadows the server's pool through two callbacks and has none for
  renames.  Correct: it follows the pool, a slot's next player inherits nothing, a request
  takes away the player it names, and nobody else; a listing is the pool.
* **Both together.**  A command runs inside a completion handler, on the registry as it is in that
  tick, and its response may be lost.  Correct: each request is served at most once, at
  one instant, and what was done is what the response made says.
* **Handler, Route, Config.**  Correct: an effect only for an authorised request to a known
  route whose body decodes; the status tells whether the effect happened; at most one
  template matches a URL; the first definition of an option counts.
* **Lifecycle, Log.**  Load may fail half way, by a return or by an exception; Unload leaves some
  globals alone.  Correct: nothing is used before it is made or after it is gone, a loaded plugin
  is whole, and one that gave up has left behind what its way to give up says.
* **xxHash.**  An input is cut into segments anywhere; the byte counter of XXH32 goes round; CPUs
  differ in byte order.  Correct: the digest is the hash in one call, on either CPU.
* **FieldsAlloc.**  Blocks come back in any order from several handles.  Correct: no two live
  blocks share a byte, the pool is rewound when it is empty and only then, and it refuses nothing
  that still fits.

`PROJECT.json` lists the hazards line by line.

## Modules

| module | models | extends |
|---|---|---|
| `Sessions` | Endpoint, Session, SessionManager, ProcessTick, gamemode callbacks | - |
| `Connections` | what the connection layer promises: a phase per connection; no sockets, timers, ticks | - |
| `Players` | PlayerManager beside the server's pool; player/list, kick, ban | - |
| `ApiServer` | `Sessions` and `Players` in one process | `Sessions`, an instance of `Players` |
| `Commands` | what the two together promise: a request is served at one instant | - |
| `Config` | Config: operators over the lines of a file: `Load`, `Args` (Get into a vector), `HasArg`/`Arg` (Get into a string) | - |
| `Requests` | Handler, Route, the commands, the codecs of their parameters | `Config` |
| `Plugin` | Load, Unload, the callbacks, ProcessTick, the loggers | `Config` |
| `FieldsAlloc` | the pool allocator and its handles | - |
| `XXHash` | what both widths share: the caller's constants, the CPU, reads of memory, canonical forms | - |
| `XXH32`, `XXH64` | the two widths of the hash; the names of `XXH64` end in 64 | `XXHash` |
| `MCSessions`, `MCPlayers`, `MCRequests`, `MCPlugin` | TLC instances | the module of the name |
| `MCXXHash` | a caller of both widths of the hash, for TLC | `XXH32`, `XXH64` |
| `SessionsProofs`, `PlayersProofs`, `ApiServerProofs`, `FieldsAllocProofs` | theorems | the module of the name |
| `ConfigProofs` | lemmas about `Load` and Get | `Config` |
| `RequestsProofs`, `PluginProofs` | theorems | the module of the name, `ConfigProofs` |
| `XXHashProofs` | theorems about both widths | `XXH32`, `XXH64` |

The modules without an MC module are instantiated by their `.cfg` alone.

### Sessions

`read`, `write`, `deadline` and `accept` are the asynchronous operations.  Each is `pending`
until the operating system completes it, which queues its handler with an error code (`ok`,
`failed`); it is `done` when the handler has run.  Actions are of two kinds:

* the environment's, at any time: `Connect`, `PeerResets`, `AcceptCompletes`,
  `ReadCompletes`, `WriteCompletes`, `DeadlineExpires`, and between ticks the gamemode
  callbacks (the game server is on the same thread);
* the handlers, only inside `poll()` (`tick = "polling"`), one per step, in any order:
  `AcceptDone`, `AcceptFailed`, `ReadFailed`, `ProcessRequest`, `RequestThrows`,
  `WriteDone`, `DeadlineClosed`, `DeadlineCancelled`.  Each is a whole handler: `AcceptDone` moves
  the socket into a session, starts its read and its deadline, and listens again;
  `ProcessRequest` reads the request, makes the response and starts the write.

What is assumed of Boost.Asio and of the operating system is in operators of its own, mapped as
external: an accept or a write on a dead socket completes at once; `close` and `cancel`
abort what is pending and cannot recall a handler already queued (`Cancelled`); an accept with
no descriptor free fails and leaves the connection in the backlog (`AcceptNow`);
`remote_endpoint` throws on a closed socket and may throw on a reset one.  The debug build
asks for the remote endpoint of every request, the release build only for GET and POST: the
constant `DebugBuild` chooses.  An exception out of ProcessTick ends the process (`tick =
"thrown"`).  `Session::Stop` and `SessionManager::Stop`/`StopAll` have no caller and no action.

### Players

`name` is the pool as the server sees it, `entered` remembers the name under which each slot's
present player connected (a history variable, read by properties and by the address of a row), `players_` is the
registry.  `Connect` and `Disconnect` are the server's change together with the callback it
makes, which runs before anything else can; `Rename` is `SetPlayerName` by the gamemode, which has
no callback.  `List`, `Remove` and `Refuse` are the requests; `listed` keeps the rows of the last
listing, each with the present name and the address as GetPlayerData's buffer returns it
(`Copied`).  Assumed of the server: names in use are distinct; natives succeed exactly on connected
players and leave a buffer alone otherwise; a kicked player leaves at some later step.  An address is taken to be a
function of the name a player came under, which spares a variable.  The order of an `unordered_map` is any
order.  `GetPlayer` has no caller.

### ApiServer

The variables and actions of `Sessions` and, by INSTANCE, of `Players`, with one more variable: `told`, what
`Session::response_` says of each client.  A step is one of three kinds.  `ConnectionStep` is
a step of `Sessions` that reaches no command.  `PlayerStep` is a callback about a player; the server's
main thread makes it between two ticks (`tick = "idle"`).  `Serve` is `ProcessRequest` of a GET or
POST *together with* a request on the registry and the response made of it: the
command runs to its end inside the completion handler.  `Commands` is the abstract view, in which there
are only players, an open or closed gamemode and, per client, what it was told.

### Requests

One session at a time: `Receive` is the completed read, `Handle` is HandleRequest with one action for each
of its outcomes (`Unauthorized` 401, `InvalidRoute` 404, `Undecodable` 500, `Fails` 417, `Succeeds` 200),
`Written` ends the session.  A target is its sequence of segments and a route a template of the
same shape; a body is its password, its hash, the fields that have the JSON kind their codec wants, and its time.
`call` is what the request made the game server do.  `file` is the server.cfg read by Load, as
lines of words; `entries` is what `Config!Load` makes of it.  Assumed: natives report success
as the code reads them (true is failure for BlockIpAddress and UnBlockIpAddress, success for the others).  The
settings listing and the chat text carry no data.

### Plugin

`phase` is the plugin's life in the server: `new`, `loaded`, `refused` (Load returned false), `thrown` (an exception
left Load) or `gone`.  Load is one function on one thread and nothing runs between its lines, so
there is one action for each way it ends, with the guard that leads there: the log's
directory cannot be made, no sink opens, no server.cfg, no password, a port that is no number
or is in use, a seed that is no number, the end.  `made` is the set of globals that point to an
object, `logger` the state of `m_Logger` (uninitialised until SetupDefaultLogger, never closed: `drop_all` knows only registered loggers), `wild` remembers that
something was used that was not there.  `env` is
chosen once: server.cfg, the ports others hold, the disk, sampgdk.
`Number` is the integer that a word starts with, whatever its size; `IsInt` and `IsULong` say whether `stoi` and
`stoul` accept it.  What they return is made narrower: the port goes through 32 bits to the 16 of its endpoint
(`Narrowed`), the seed through the bits of an unsigned long, where a minus sign counts down from the top, to the 32
of `SetSeed` (`Seed`).  `Ports`, `Words` and `Longs` are 2^16, 2^32, and 2^32 or 2^64.  Assumed: the server calls the rest of the plugin only after Load returned true, and Unload last.

### FieldsAlloc

`p_`, `count_` and `refs_` are the fields of `static_pool`; `handles` and `live` are the handles and allocations that
exist, `freed` says that the memory was deleted.  It never is: `refs_` starts at 1 for the first handle and `destroy` compares it
before the decrement, so that the last handle leaves it at 0 without deleting, and each pool leaks (`MemoryStays`).  `spent` is a history
variable, the bytes handed out since nothing was allocated; `refused` is the length the last call asked for in vain.  A deallocation through another handle would be the same, since all share
the pool.  Assumed of the user, as of any allocator's: what was allocated is given back once, and before
its handle is destroyed.

### XXHash, XXH32, XXH64

An integer is its sequence of bytes, memory is a sequence of bytes, and a round is a free
constructor: an accumulator is its start value followed by the words it absorbed, in order.  Two hashes that
are equal in the model are equal whatever the multiplications and rotations do.  So
everything about *which* bytes go *where* is kept (buffer, stripes, remainder, byte order, the
counter's width), and the mixing is abstracted.  `phase` is the caller's protocol for a
state: allocated, reset, then updates in any number.  `fed` is a history variable: every byte since the reset.
Assumed: malloc succeeds, no unaligned or native-format build options (`XXH_FORCE_NATIVE_FORMAT` is 0).

## Runs

| run | instance | question |
|---|---|---|
| `sessions_safety` | 3 clients, 2 descriptors, release build, symmetric clients | are the safety properties and the refinement right in every interleaving? |
| `sessions_liveness` | 2 clients, 1 descriptor, debug build | does every session end, does every tick return? |
| `sessions_close` | 2 clients, 2 descriptors | does the deadline's close stop the request, as its comment says? (No.) |
| `players_safety` | 3 slots, 4 names, two addresses, of which one fills the buffer; symmetric | does the registry follow the pool, does a request hit by login only one player, is a listing the pool? |
| `players_named` | 2 slots, 2 names | is the player "n" who "got kicked" called n? (No.) |
| `server_safety` | 2 clients, 1 descriptor, 2 slots, 2 names | is each request served once, at one instant, and answered truly? |
| `requests_safety` | 5 files, 10 targets, 2 addresses, 2 passwords, 2 hashes, 5 bodies, 3 times | who gets a command through, on whom, and for how long? |
| `requests_seconds` | the same, 2 times | does the answer to a ban give seconds? (No.) |
| `requests_readme` | the same, 1 time | are the documented bodies accepted? (Not for ip/ban, ip/unban, gravity.) |
| `plugin_safety` | 18 files, 16 ports, words of 6 bits, longs of 12, debug build | is anything used that is not there; is a loaded plugin whole; what does each way to give up leave behind? |
| `alloc_safety` | 3 handles, 9 bytes, blocks of 2, 3 and 9 | are blocks apart, does the pool rewind when it may, does it refuse only what does not fit? |
| `xxhash` | 2 states, both CPUs, segments of 0, 11, 21 and 66 bytes | do the counters account for every byte, is the digest the hash in one call, do machines agree? |

Bounds.  Each client connects once; sessions share only the acceptor, the descriptors and the tick, so
three (one waiting in the backlog, two holding all descriptors) already meet in every way the
code distinguishes, and the run with one descriptor and two clients reaches exhaustion. No
variable counts, so there is no other bound.  Three slots give a renamed player, another under the old
name and a bystander; the fourth name lets a full pool still be renamed.
The Handler keeps nothing between requests, so `Requests` needs only every kind of input once: a whitelist absent, with two
addresses, given twice, given without arguments and given a blank; targets that match, that
almost match and with an empty name; two targets with one hash.  Words have 8 bits and a second
10 ms, so that times fit an int, exceed it, and wrap within TLC's integers.

In `Plugin` the seven ways Load ends need a file for each kind of port and of seed, and every state of disk and ports.  With
16 ports the port 7778 is 7, 23 is 7 again, 16 is 0 and -9 is 7; with words of 6 bits 40 is a seed but no int, so that
`stoul` takes it and `stoi` throws, and with longs of 12 the seed -9 is 55, 300 is 44 and 5000 is refused.  In `XXH32` the counter goes round at 32
(`Wrap`, the least power of two that the sum of two lengths below a stripe does not reach), and an input of
77 bytes (`MaxFed`) does so twice.  Segments of 11 and 21 bytes fill the buffers of 16 and of 32 exactly, go past them
or stay in them, according to what came before; one of 66 has several stripes of either width; one of 0 has nothing.  The caller takes up
one width at a time, because the two share nothing but the CPU.  `XXH64` has a counter of 64 bits that no caller lives to see go round: there it
counts in the naturals.  Nine bytes hold four blocks of two, or two and three mixed, and refuse nine.
`server_safety` is bounded by its size (1.0 million states); one descriptor makes the second client
meet the failed accept.

Deadlock checking is off where the system may stop: in the Sessions and ApiServer runs because a process that an
exception has ended stops for good, in the Plugin run because a refused, thrown or unloaded plugin is
not called again, in the FieldsAlloc run because there is an end without handles, in the xxHash run because `MaxFed`
bounds the input.

What the properties say is in the comments above them.  The main ones: `DeadlineArmed` and
`SessionEnds` (no peer can hold a session for ever), `ExchangeOrder`, `ClosedIsQuiet`,
`OneIncoming`, `RepliesInGameMode`, `ImplementsConnections`; and `HungForever` with
`TickReturns`, which together say that a tick returns except in one situation, and that
this situation is final: all descriptors held by answered sessions, whose deadline
Write's handler has cancelled and which nothing else closes, while a connection waits.  `ListIsPool` compares a whole listing with the pool.
`EffectsAnswered` says that nobody is removed in silence, and `ImplementsCommands` that
sessions, ticks and the registry together are one object on which each request takes effect at one
instant, in the gamemode, at most once: a lost answer does not undo it and a retry is another
connection.  `LoadedIsWhole` compares what Load handed on with what the file says first.
`GivenUp` says of every way to give up whether it holds a port and what it has said.  A port is held without being served
after a bad `api_seed`, after a `sampgdk::Load` that failed, which has announced that it listens, and after Unload; what
leaves the server's output without a word are the exceptions: a log directory that cannot be made, a port that cannot be had, a bad seed.
`RefusedOnlyWhenSpent` says that no history of calls wears the pool out.
`CommandsAllowed` says who gets past the 401, in both directions: whoever server.cfg entitles, and nobody else.
`DigestIsOneShot` needs all of `Accounted`, and holds after the counter went round.

### Fairness

`Fairness` in `Sessions`: the operating system reports a waiting connection and an expired
timer; `poll()` runs each queued handler before it returns and returns when there is none (weak
fairness of each handler and of `TickEnd`); the server calls ProcessTick in every round of its
main loop, so with gamemodes up again and again it gets to run again and again (strong
fairness of `TickBegin`, because `ready` may go down in between).  Nothing is assumed of peers: reads and
writes need never complete.  Nothing is assumed of gamemodes, so `SessionEnds` has the
premise `[]<>ready`: with no gamemode no handler runs and no deadline is enforced.

### Findings

1. `api/Session.cpp:86` says the close at the deadline cancels "any outstanding operation".
   When the request has been read in the same tick, its handler is queued already and runs on
   the closed socket; `remote_endpoint()` at line 60 then throws through `poll()` and
   ProcessTick.
2. Kick and ban match the name a player connected under, the listing shows the present one
   and the answer repeats the name asked for: after a rename "Player n got kicked" is about
   somebody else.
3. `api/Handler.cpp:82` answers a ban of n seconds with "time: 1000 n seconds".
4. The repository's README documents `{ip,time}`, `{ip}` and `{value}` for ip/ban, ip/unban and gravity; the
   codecs require `address` and `gravity`, and answer the documented bodies with 500.

Each has a run that TLC ends with the violation.  Five more differences are visible in the models and have no run:

* `api/PlayerManager.cpp:61` gives GetPlayerIp a buffer of 15 bytes: an address of 15 characters is
  listed without its last digit (`Copied` in `Players`).
* `api_port` above 65535 is announced in full and listened on modulo 2^16 (`Narrowed` in `Plugin`).
* When the directory of the log cannot be made, `create_directories` throws past the only handler, and
  the fallback of `api/Api.cpp:77` is not reached (`LoadLogThrows` in `Plugin`).
* When `sampgdk::Load` fails, Load goes on to bind the port and announce it before it returns false, and the port stays
  bound (`LoadCompletes` in `Plugin`).
* The pool of FieldsAlloc refuses an allocation that fits its "given size" (`api/FieldsAlloc.hpp:90`) exactly:
  the last byte is never used (`AllocateThrows`).

## Proofs

The theorems hold for all values of the constants that the named assumptions allow: any finite set of
clients, any positive number of descriptors and both builds (`ClientsAssumption`,
`DescriptorsAssumption`, `DebugBuildAssumption`); any slots, names and addresses (`NoNameAssumption`,
`AddressAssumption`); any server.cfg files that
are lines of words (`FilesAssumption`; for `Requests` each gives a password, without which Load refuses the plugin), targets and bodies; any ports, pool sizes, segments and width of the counter
(`PortsAssumption`, `NumberAssumption`, `SizeAssumption`, `WrapAssumption`, `LengthsAssumption`); any widths of
which each divides the next (`WidthAssumption`), and any even range of a word (`WordAssumption`).

`SessionsProofs`.  `IInv` is the conjunction of `TypeOK`, `DeadlineArmed`, `ClosedIsQuiet`,
`ExchangeOrder` and `OneIncoming`.  The parts lean on one another: `OneIncoming` needs
`ExchangeOrder` to know that no write or deadline handler runs for a connection without a session,
and `ExchangeOrder` needs `OneIncoming` to know that Listen starts with an empty `socket_`.
`ListenEffect` says once what `Endpoint::Listen` leaves behind, and is
used for the three actions that call it.  `RefinementTheorem` maps each step to a step of
`Connections` or to a stutter.  `HangTheorem` adds the invariant that a failed accept leaves a
connection waiting, and shows by cardinalities that answered sessions never give up the
descriptors they hold.

`PlayersProofs`.  `IInv` strengthens `RegistryIsPool` by the distinctness of the names in
use, which the pool guarantees; the other properties follow from it step by step.

`ApiServerProofs`.  Every step of the composition is a step or a stutter of `Sessions` and of the
instance of `Players` (`ConnectionsTheorem`, `PlayersTheorem`), so their invariants hold in
it.  `CommandsTheorem` needs three of them at once (`Joined`): that a response exists exactly for a
client whose request was served, that ticks run only in a gamemode, and that the registry is the
pool, without which "invalid player" would not mean that nobody came under the name.

`ConfigProofs`.  `Load` is a recursive function of the number of lines read.  `Read` gives it in closed
form: after n lines an option is known if one of them gives it an argument, and has the arguments of the
first that does.  `ReadStep` shows this of one turn of the loop; `LoadIsRead` concludes it for all lines by
`SetInduction`, which speaks of the set of the numbers of lines for which it holds and rests on the
well-foundedness of < on the naturals.  `ArgsAreFirst` and `HasArgIsDefining` then say what each form of Get finds.

`RequestsProofs`.  `AuthorizedIsEntitled` shows that Authorize, which reads the entries that Load made, lets through
exactly the requests that the file entitles: the address is among the arguments of
the first whitelist line, if there is one, the password is the first one the file gives, the hash is that of the target.
`AllowedTheorem` follows it through the five outcomes, of which only one is a 401.  `NameTheorem` follows from what `Matches` demands of a segment that a template captures.
`BanTheorem` is an argument about `%`: a product that fits an int is changed neither by the word nor by the
sign.  `Idle` says that nothing is called between two requests.

`PluginProofs`.  `IInv` is the conjunction of `TypeOK`, `MadeBeforeUse`, `GivenUp`, `LoadedIsWhole` and `Fresh`, which says
that nothing has been said before Load.  `MadeBeforeUse` is not inductive by itself: that a callback finds its globals and its logger is the first
part of `LoadedIsWhole`; and that Unload leaves a port held is its last.  `ReadsConfigured` joins what Load reads to what the file says first.
The lemmas about `%` come first: a number made narrower twice is congruent to what it was, for any sign (`ModTwice`), and
only one number below the width is (`OneCongruent`).  From them `BindableAsked` has that Load binds the ports that the file asks for and no
others, which `LoadedIsWhole` needs in one direction and `GivenUp`, for a port that is not to be had, in the other.

`FieldsAllocProofs`.  `IInv` adds that `count_` counts the live blocks and `p_` is past all of them (`Pool`), that
`refs_` counts the handles (`Counted`), and that `p_` is the number of bytes handed out since the pool
was empty (`Account`); cardinalities then say that a count of zero is an empty set.  `SpentTheorem` follows from `Account`,
`MemoryTheorem` from `Counted`: a handle about to be destroyed is one of those counted, so that destroy never finds the count at 0.

`XXHashProofs`.  A live state *stands for* the bytes fed to it (`Stands`): the counter is their number
modulo `Wrap`, the flag says whether there is a stripe, the accumulators are the rounds over
all whole stripes, and the buffer holds what is left.  `Stands` is stronger than `DigestIsOneShot`, which does
not say what the next update finds.  `UpdateStands` splits an update as the code does: a
segment that only goes to the buffer (`BufferStands`), or one that completes it (`CompleteStands`) and is absorbed
stripe by stripe (`AbsorbStands`); both rest on `RoundsGoOn`, that rounds over a memory and then over
its continuation are rounds over the whole.  The widths of `large_len` and of the counter meet in
`CountedFields`, which needs `Wrap >= 32`.  `ComparableTheorem` adds that reads of words and canonical forms do not depend on the CPU.

For `XXH64` the argument has the same steps (`Stands64`, `UpdateStands64`, `RoundsGoOn64`) over stripes of 32 bytes
and its own fields: the counter is the number of bytes itself, so that it and no flag decides which form the
digest has, and a digest of a whole stripe merges the four accumulators again.  Lemmas about remainders, memory and byte
orders are shared.

Model-checked only:

* the liveness properties `SessionEnds` and `TickReturns` (liveness under fairness is out of the prover's reach);
* the violated properties.

## Not modelled

* Formatting, layout and wording of responses and logs; what LogSink copies to `logprintf`; what the log file keeps in
  its buffer.
* Parsing of HTTP and JSON, which belongs to Beast and spotify-json; a body is what its codec finds in it.
* Percent-encoding: `handler::kick` (`api/Handler.cpp:23`) takes the segment of the target as it is, so a client
  that encodes the brackets of a name does not name the player.  Targets are sequences of opaque
  segments here; which characters a client encodes is the client's choice.
* Of a listed player the numbers (score, ping, ...), and the data of settings/list: they are
  read and passed on.
* `Route`'s cache, which nothing fills; functions without a caller: `Session::Stop`, `SessionManager::Stop` and `StopAll`,
  `PlayerManager::GetPlayer`.
* The arithmetic of a round of xxHash, and its build options.
* Build files and plugin exports, which have no behaviour of their own.
