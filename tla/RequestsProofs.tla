----------------------------- MODULE RequestsProofs ----------------------------
(***************************************************************************)
(* Theorems about Requests, for any files, targets, bodies and widths.     *)
(***************************************************************************)
EXTENDS Requests, ConfigProofs

LEMMA InitTypeOK == Init => TypeOK
BY WordAssumption DEF Init, TypeOK, Silence, NoCall

LEMMA MillisecondsInWord ==
  ASSUME NEW time \in Nat
  PROVE  Milliseconds(time) \in 0 .. Word - 1
BY WordAssumption DEF Milliseconds

LEMMA SignedInWord ==
  ASSUME NEW word \in 0 .. Word - 1
  PROVE  Signed(word) \in -(Word \div 2) .. Word \div 2 - 1
<1>1. Word = 2 * (Word \div 2) /\ Word \div 2 \in Nat
  BY WordAssumption
<1>. QED
  BY <1>1 DEF Signed

LEMMA TimeIsNatural ==
  ASSUME NEW req \in Request
  PROVE  req.time \in Nat
<1>1. req.time \in Times
  BY DEF Request
<1>. QED
  BY <1>1, WordAssumption

LEMMA StepTypeOK == TypeOK /\ [Next]_vars => TypeOK'
<1>. SUFFICES ASSUME TypeOK, [Next]_vars
              PROVE  TypeOK'
  OBVIOUS
<1>. USE WordAssumption DEF TypeOK
<1>1. ASSUME NEW req \in Request, Receive(req)
      PROVE  TypeOK'
  BY <1>1 DEF Receive
<1>2. CASE Unauthorized \/ InvalidRoute \/ \E route \in Routes : Undecodable(route) \/ Fails(route)
  BY <1>2 DEF Unauthorized, InvalidRoute, Undecodable, Fails, Answer, NothingDone
<1>3. ASSUME request # NoRequest, NEW route \in Routes, Succeeds(route)
      PROVE  TypeOK'
  <2>1. request.time \in Nat
    BY <1>3, TimeIsNatural
  <2>2. /\ Milliseconds(request.time) \in 0 .. Word - 1
        /\ Signed(Milliseconds(request.time)) \in -(Word \div 2) .. Word \div 2 - 1
    BY <2>1, MillisecondsInWord, SignedInWord
  <2>. QED
    BY <1>3, <2>2 DEF Succeeds, Answer
<1>4. CASE Written
  BY <1>4 DEF Written, Silence
<1>5. CASE UNCHANGED vars
  BY <1>5 DEF vars
<1>. QED
  BY <1>1, <1>2, <1>3, <1>4, <1>5 DEF Next, Handle

\* Every response has a known code and type, and no ban leaves the range of an int.
THEOREM RequestsTypeTheorem == Spec => []TypeOK
BY InitTypeOK, StepTypeOK, PTL DEF Spec

-----------------------------------------------------------------------------
\* A command that reaches a player has captured their name.
LEMMA CapturedName ==
  ASSUME NEW route \in Routes \ ReadOnly, route[1] = "player", NEW target, Matches(route, target)
  PROVE  Name(route, target) # Empty
<1>1. route \in {<<"player", "kick", ":name">>, <<"player", "ban", ":name">>}
  BY DEF Routes, ReadOnly
<1>2. Len(route) = 3 /\ IsKey(route[3])
  BY <1>1 DEF IsKey
<1>3. Len(target) = 3 /\ target[3] # Empty
  BY <1>2 DEF Matches
<1>. QED
  BY <1>2, <1>3 DEF Name, Last

LEMMA InitNamesAPlayer == Init => NamesAPlayer
BY DEF Init, NamesAPlayer, Called

LEMMA StepNamesAPlayer == NamesAPlayer /\ [Next]_vars => NamesAPlayer'
<1>. SUFFICES ASSUME NamesAPlayer, [Next]_vars
              PROVE  NamesAPlayer'
  OBVIOUS
<1>1. ASSUME NEW route \in Routes, Succeeds(route)
      PROVE  NamesAPlayer'
  <2>1. CASE route \in ReadOnly
    BY <1>1, <2>1 DEF Succeeds, NamesAPlayer, Called
  <2>2. CASE route \notin ReadOnly
    BY <1>1, <2>2, CapturedName DEF Succeeds, NamesAPlayer, Called
  <2>. QED
    BY <2>1, <2>2
<1>2. CASE call' = call \/ call'[1] = NoCall
  BY <1>2 DEF NamesAPlayer, Called
<1>. QED
  BY <1>1, <1>2 DEF Next, Handle, Receive, Unauthorized, InvalidRoute, Undecodable, Fails,
                    NothingDone, Written, vars

\* No kick or ban is made of the empty name.
THEOREM NameTheorem == Spec => []NamesAPlayer
BY InitNamesAPlayer, StepNamesAPlayer, PTL DEF Spec

-----------------------------------------------------------------------------
LEMMA ShortBan ==
  ASSUME NEW time \in Nat, time * Thousand < Word \div 2
  PROVE  Signed(Milliseconds(time)) = time * Thousand
<1>1. time * Thousand \in Nat
  BY WordAssumption
<1>2. Milliseconds(time) = time * Thousand
  BY <1>1, WordAssumption DEF Milliseconds
<1>. QED
  BY <1>1, <1>2 DEF Signed

\* Nothing is called or answered but for a request, which stays the same until its response is
\* written.
Idle == request = NoRequest => call[1] = NoCall /\ response = Silence

LEMMA NoCallIsNoBan == NoCall # IpBan
<1>1. Len(NoCall) = 0 /\ Len(IpBan) = 3
  BY DEF NoCall, IpBan
<1>. QED
  BY <1>1

LEMMA StepIdle == Idle /\ [Next]_vars => Idle'
<1>. SUFFICES ASSUME Idle, [Next]_vars
              PROVE  Idle'
  OBVIOUS
<1>1. CASE Handle
  BY <1>1 DEF Handle, Unauthorized, InvalidRoute, Undecodable, Fails, Succeeds, Answer, Idle
<1>2. ASSUME NEW req \in Request, Receive(req)
      PROVE  Idle'
  BY <1>2 DEF Receive, Idle
<1>3. CASE Written
  BY <1>3 DEF Written, Idle
<1>4. CASE UNCHANGED vars
  BY <1>4 DEF vars, Idle
<1>. QED
  BY <1>1, <1>2, <1>3, <1>4 DEF Next

LEMMA StepBanLength == TypeOK /\ Idle /\ BanLength /\ [Next]_vars => BanLength'
<1>. SUFFICES ASSUME TypeOK, Idle, BanLength, [Next]_vars
              PROVE  BanLength'
  OBVIOUS
<1>1. ASSUME request # NoRequest, NEW route \in Routes, Succeeds(route)
      PROVE  BanLength'
  <2>. SUFFICES ASSUME call'[1] = IpBan, request'.time * Thousand < Word \div 2
                PROVE  blocked' = request'.time * Thousand
    BY DEF BanLength
  <2>1. request' = request /\ request.time \in Nat
    BY <1>1, TimeIsNatural DEF Succeeds, Answer, TypeOK
  <2>2. route = IpBan
    BY <1>1, NoCallIsNoBan DEF Succeeds
  <2>3. blocked' = Signed(Milliseconds(request.time))
    BY <1>1, <2>2 DEF Succeeds
  <2>. QED
    BY <2>1, <2>3, ShortBan
<1>2. CASE call'[1] = NoCall
  BY <1>2, NoCallIsNoBan DEF BanLength
<1>3. ASSUME NEW req \in Request, Receive(req)
      PROVE  BanLength'
  <2>1. call[1] = NoCall /\ call' = call
    BY <1>3 DEF Receive, Idle
  <2>. QED
    BY <2>1, <1>2
<1>4. CASE UNCHANGED vars
  BY <1>4 DEF vars, BanLength
<1>5. CASE Unauthorized \/ InvalidRoute \/ \E route \in Routes : Undecodable(route) \/ Fails(route)
  <2>1. call'[1] = NoCall
    BY <1>5 DEF Unauthorized, InvalidRoute, Undecodable, Fails, NothingDone
  <2>. QED
    BY <2>1, <1>2
<1>6. CASE Written
  <2>1. call'[1] = NoCall
    BY <1>6 DEF Written
  <2>. QED
    BY <2>1, <1>2
<1>. QED
  BY <1>1, <1>3, <1>4, <1>5, <1>6 DEF Next, Handle

\* A ban that fits an int of milliseconds is made for the seconds asked for.
THEOREM BanTheorem == Spec => []BanLength
<1>1. Init => Idle /\ BanLength
  BY NoCallIsNoBan DEF Init, Idle, BanLength
<1>. QED
  BY <1>1, InitTypeOK, StepTypeOK, StepIdle, StepBanLength, PTL DEF Spec

-----------------------------------------------------------------------------
\* What Authorize admits is what the file says.
LEMMA AuthorizedIsEntitled ==
  ASSUME TypeOK, NEW req
  PROVE  Authorize(req) <=> Entitled(req)
<1>. DEFINE ips     == Args(entries, "api_ip_whitelist")
            allowed == Given("api_ip_whitelist")
            line    == file[First(file, "api_ip_whitelist")]
<1>1. file \in Lines /\ HasArg(Load(file), "api_password", 0)
  BY FilesAssumption DEF TypeOK
<1>2. Arg(entries, "api_password", 0) = file[First(file, "api_password")][2]
  BY <1>1, HasArgIsDefining DEF entries
<1>3. (ips = <<>> \/ req.remote \in ToSet(ips)) <=> (allowed = {} \/ req.remote \in allowed)
  <2>1. CASE Defining(file, "api_ip_whitelist") = {}
    <3>1. ips = <<>>
      BY <1>1, <2>1, ArgsAreFirst DEF entries
    <3>. QED
      BY <2>1, <3>1 DEF Given
  <2>2. CASE Defining(file, "api_ip_whitelist") # {}
    <3>1. /\ ips = Tail(line)
          /\ line \in Seq(STRING) /\ Len(line) > 1
      BY <1>1, <2>2, ArgsAreFirst, FirstHasArg DEF entries
    <3>2. allowed = {line[k] : k \in 2..Len(line)}
      BY <2>2 DEF Given
    <3>. HIDE DEF ips, allowed, line
    <3>3. /\ Len(Tail(line)) = Len(line) - 1 /\ DOMAIN Tail(line) = 1..Len(line) - 1
          /\ \A i \in 1..Len(line) - 1 : Tail(line)[i] = line[i + 1]
      BY <3>1
    <3>4. ips # <<>> /\ allowed # {}
      <4>1. Len(ips) # 0 /\ Len(<<>>) = 0
        BY <3>1, <3>3
      <4>2. 2 \in 2..Len(line)
        BY <3>1
      <4>3. ips # <<>>
        BY <4>1
      <4>4. line[2] \in allowed
        BY <3>2, <4>2
      <4>. QED
        BY <4>3, <4>4
    <3>5. ToSet(ips) = {ips[i] : i \in 1..Len(line) - 1}
      BY <3>1, <3>3 DEF ToSet
    <3>6. \A i \in 1..Len(line) - 1 : ips[i] = line[i + 1] /\ i + 1 \in 2..Len(line)
      BY <3>1, <3>3
    <3>7. \A k \in 2..Len(line) : k - 1 \in 1..Len(line) - 1 /\ ips[k - 1] = line[k]
      BY <3>1, <3>3
    <3>8. ToSet(ips) = allowed
      BY <3>2, <3>5, <3>6, <3>7
    <3>. QED
      BY <3>4, <3>8
  <2>. QED
    BY <2>1, <2>2
<1>. QED
  BY <1>2, <1>3 DEF Authorize, Entitled

LEMMA StepCommandsAllowed == TypeOK /\ Idle /\ CommandsAllowed /\ [Next]_vars => CommandsAllowed'
<1>. SUFFICES ASSUME TypeOK, Idle, CommandsAllowed, [Next]_vars
              PROVE  CommandsAllowed'
  OBVIOUS
<1>1. ASSUME UNCHANGED <<file, request>>
      PROVE  Entitled(request)' <=> Authorize(request)
  <2>1. Entitled(request)' <=> Entitled(request)
    BY <1>1 DEF Entitled, Given
  <2>. QED
    BY <2>1, AuthorizedIsEntitled
<1>2. ASSUME NEW route \in Routes, Succeeds(route)
      PROVE  CommandsAllowed'
  <2>1. response'.code = 200 /\ Authorize(request) /\ UNCHANGED <<file, request>>
    BY <1>2 DEF Succeeds, Answer
  <2>. QED
    BY <1>1, <2>1 DEF CommandsAllowed
<1>3. CASE Unauthorized
  <2>1. response'.code = 401 /\ ~ Authorize(request) /\ UNCHANGED <<file, request>>
    BY <1>3 DEF Unauthorized, Answer
  <2>2. call'[1] = NoCall
    BY <1>3 DEF Unauthorized, NothingDone
  <2>. QED
    BY <1>1, <2>1, <2>2 DEF CommandsAllowed, Called
<1>4. CASE InvalidRoute \/ \E route \in Routes : Undecodable(route) \/ Fails(route)
  <2>1. response'.code # 401 /\ Authorize(request) /\ UNCHANGED <<file, request>>
    BY <1>4 DEF InvalidRoute, Undecodable, Fails, Answer
  <2>2. call'[1] = NoCall
    BY <1>4 DEF InvalidRoute, Undecodable, Fails, NothingDone
  <2>. QED
    BY <1>1, <2>1, <2>2 DEF CommandsAllowed, Called
<1>5. ASSUME NEW req \in Request, Receive(req)
      PROVE  CommandsAllowed'
  BY <1>5 DEF Receive, Idle, CommandsAllowed, Called
<1>6. CASE Written
  BY <1>6 DEF Written, CommandsAllowed, Called
<1>7. CASE UNCHANGED vars
  <2>1. Entitled(request)' <=> Entitled(request)
    BY <1>1, <1>7, AuthorizedIsEntitled DEF vars
  <2>. QED
    BY <1>7, <2>1 DEF vars, CommandsAllowed, Called
<1>. QED
  BY <1>2, <1>3, <1>4, <1>5, <1>6, <1>7 DEF Next, Handle

\* Whatever lines server.cfg has, however it repeats an option: exactly the requests of a peer
\* of the first whitelist line, with the first password and a hash of their target, get past 401
\* and to a command.
THEOREM AllowedTheorem == Spec => []CommandsAllowed
<1>1. Init => Idle /\ CommandsAllowed
  BY DEF Init, Idle, CommandsAllowed, Called
<1>. QED
  BY <1>1, InitTypeOK, StepTypeOK, StepIdle, StepCommandsAllowed, PTL DEF Spec
===============================================================================
