------------------------------ MODULE PluginProofs -----------------------------
(***************************************************************************)
(* Theorems about Plugin, for any server.cfg files, ports and numbers.     *)
(***************************************************************************)
EXTENDS Plugin, ConfigProofs

\* Before Load nothing has been said, so that what is said afterwards is what Load said.
Fresh == phase = "new" => said = {}

\* The inductive invariant: MadeBeforeUse and GivenUp need LoadedIsWhole, which knows that every
\* global of a plugin that is called is made and that it holds a port.
IInv ==
  /\ TypeOK
  /\ MadeBeforeUse
  /\ GivenUp
  /\ LoadedIsWhole
  /\ Fresh

(* Numbers that are made narrower. *)

\* A multiple has no remainder.
LEMMA MultipleMod ==
  ASSUME NEW m \in Nat \ {0}, NEW z \in Int
  PROVE  (m * z) % m = 0
<1>. DEFINE n == m * z
            p == n \div m
            u == n % m
<1>1. n \in Int /\ p \in Int /\ u \in 0..m - 1 /\ n = m * p + u
  OBVIOUS
<1>2. m * (z - p) = u
  BY <1>1
<1>. DEFINE d == z - p
<1>3. d \in Int /\ m * d = u
  BY <1>1, <1>2
<1>4. CASE d >= 1
  <2>1. m * d >= m
    BY <1>3, <1>4
  <2>. QED
    BY <1>1, <1>3, <2>1
<1>5. CASE d <= -1
  <2>1. m * d <= -m
    BY <1>3, <1>5
  <2>. QED
    BY <1>1, <1>3, <2>1
<1>6. CASE d = 0
  BY <1>3, <1>6
<1>. QED
  BY <1>3, <1>4, <1>5, <1>6

\* A number made narrower twice is congruent to what it was.
LEMMA ModTwice ==
  ASSUME NEW n \in Int, NEW k \in Nat \ {0}, NEW m \in Nat \ {0}, k % m = 0
  PROVE  /\ (n % k) % m \in 0..m - 1
         /\ (((n % k) % m) - n) % m = 0
<1>. DEFINE r == n % k
            q == n \div k
            p == k \div m
            t == r \div m
            u == r % m
<1>1. q \in Int /\ r \in Int /\ n = k * q + r
  OBVIOUS
<1>2. p \in Int /\ k = m * p
  OBVIOUS
<1>3. t \in Int /\ u \in 0..m - 1 /\ r = m * t + u
  BY <1>1
<1>. HIDE DEF q, r, p, t, u
<1>4. u - n = m * (-(p * q + t))
  <2>1. n = (m * p) * q + (m * t + u)
    BY <1>1, <1>2, <1>3
  <2>. QED
    BY <1>1, <1>2, <1>3, <2>1
<1>5. (u - n) % m = 0
  <2>1. -(p * q + t) \in Int
    BY <1>1, <1>2, <1>3
  <2>. QED
    BY <1>4, <2>1, MultipleMod
<1>. QED
  BY <1>3, <1>5 DEF u, r

\* What is congruent to 0.
LEMMA ZeroMod ==
  ASSUME NEW n \in Int, NEW m \in Nat \ {0}
  PROVE  n % m = 0 <=> (0 - n) % m = 0
<1>1. ASSUME NEW k \in Int, k % m = 0
      PROVE  (0 - k) % m = 0
  <2>. DEFINE q == k \div m
  <2>1. q \in Int /\ k = m * q
    BY <1>1
  <2>. HIDE DEF q
  <2>2. 0 - k = m * (-q) /\ -q \in Int
    BY <2>1
  <2>. QED
    BY <2>2, MultipleMod
<1>2. 0 - (0 - n) = n /\ 0 - n \in Int
  OBVIOUS
<1>. QED
  BY <1>1, <1>2

\* Of the numbers below m one is congruent to n.
LEMMA OneCongruent ==
  ASSUME NEW n \in Int, NEW m \in Nat \ {0}, NEW p \in 0..m - 1, NEW r \in 0..m - 1,
         (p - n) % m = 0, (r - n) % m = 0
  PROVE  p = r
<1>. DEFINE a == (p - n) \div m
            b == (r - n) \div m
            d == a - b
<1>1. a \in Int /\ p - n = m * a
  OBVIOUS
<1>2. b \in Int /\ r - n = m * b
  OBVIOUS
<1>. HIDE DEF a, b
<1>3. d \in Int /\ p - r = m * d
  BY <1>1, <1>2
<1>. HIDE DEF d
<1>4. CASE d >= 1
  <2>1. m * d >= m
    BY <1>3, <1>4
  <2>. QED
    BY <1>3, <2>1
<1>5. CASE d <= -1
  <2>1. m * d <= -m
    BY <1>3, <1>5
  <2>. QED
    BY <1>3, <2>1
<1>6. CASE d = 0
  BY <1>3, <1>6
<1>. QED
  BY <1>3, <1>4, <1>5, <1>6

\* A port is what 16 bits hold of a number.
LEMMA NarrowedPort ==
  ASSUME NEW n \in Int
  PROVE  Narrowed(n) \in 0..Ports - 1 /\ (Narrowed(n) - n) % Ports = 0
<1>1. Words \in Nat \ {0} /\ Ports \in Nat \ {0} /\ Words % Ports = 0
  BY PortsAssumption, WidthAssumption
<1>. QED
  BY <1>1, ModTwice DEF Narrowed

\* A seed is what 32 bits hold of a number.
LEMMA SeedWord ==
  ASSUME NEW n \in Int
  PROVE  Seed(n) \in 0..Words - 1 /\ (Seed(n) - n) % Words = 0
BY WidthAssumption, ModTwice DEF Seed

\* The ports that bind can give are those the number asks for.
LEMMA BindableAsked ==
  ASSUME NEW n \in Int
  PROVE  Bindable(Narrowed(n)) =
           {p \in 1..Ports - 1 \ env.used : n % Ports = 0 \/ (p - n) % Ports = 0}
<1>. DEFINE w == Narrowed(n)
<1>1. w \in 0..Ports - 1 /\ (w - n) % Ports = 0 /\ Ports \in Nat \ {0}
  BY NarrowedPort, PortsAssumption
<1>. HIDE DEF w
<1>2. 0 \in 0..Ports - 1
  BY <1>1
<1>3. CASE n % Ports = 0
  <2>1. (0 - n) % Ports = 0
    BY <1>1, <1>3, ZeroMod
  <2>2. w = 0
    BY <1>1, <1>2, <2>1, OneCongruent
  <2>. QED
    BY <1>3, <2>2 DEF Bindable, w
<1>4. CASE n % Ports # 0
  <2>1. w # 0
    BY <1>1, <1>4, ZeroMod
  <2>2. w \in 1..Ports - 1
    BY <1>1, <2>1
  <2>3. \A p \in 1..Ports - 1 : p \in 0..Ports - 1
    BY <1>1
  <2>4. \A p \in 1..Ports - 1 : (p - n) % Ports = 0 <=> p = w
    BY <1>1, <2>3, OneCongruent
  <2>5. Bindable(w) = {w} \ env.used
    BY <2>1 DEF Bindable
  <2>. QED
    BY <1>4, <2>2, <2>4, <2>5 DEF w
<1>. QED
  BY <1>3, <1>4

-----------------------------------------------------------------------------
(* Load. *)

\* What Load reads of an option is what the file configures.
LEMMA ReadsConfigured ==
  ASSUME env.config \in Files, NEW option
  PROVE  /\ \A default : ArgOr(option, default) = Configured(option, default)
         /\ HasArg(entries, option, 0) <=> Defining(env.config, option) # {}
         /\ HasArg(entries, option, 0) =>
              /\ Arg(entries, option, 0) = env.config[First(env.config, option)][2]
              /\ \A default : Arg(entries, option, 0) = Configured(option, default)
<1>1. env.config \in Lines
  BY FilesAssumption
<1>2. /\ HasArg(entries, option, 0) <=> Defining(env.config, option) # {}
      /\ Defining(env.config, option) # {} =>
           Arg(entries, option, 0) = env.config[First(env.config, option)][2]
  BY <1>1, HasArgIsDefining DEF entries
<1>. QED
  BY <1>2 DEF ArgOr, Configured

\* The three options of Load.
LEMMA ReadsOptions ==
  ASSUME env.config \in Files
  PROVE  /\ port = Configured("api_port", "7778")
         /\ seed = Configured("api_seed", "17733194")
         /\ HasArg(entries, "api_password", 0) =>
              /\ Arg(entries, "api_password", 0) \in Passwords
              /\ Arg(entries, "api_password", 0) = Configured("api_password", "")
BY ReadsConfigured DEF port, seed, Passwords

\* The process does not change, nor what depends on it alone.
LEMMA SameEnv ==
  ASSUME env' = env
  PROVE  /\ \A option, default : Configured(option, default)' = Configured(option, default)
         /\ PathThrows' <=> PathThrows
         /\ SinkOpens' <=> SinkOpens
         /\ PortFree' <=> PortFree
<1>1. \A option, default : Configured(option, default)' = Configured(option, default)
  BY DEF Configured
<1>2. PortFree' <=> PortFree
  BY <1>1 DEF PortFree
<1>. QED
  BY <1>1, <1>2 DEF PathThrows, SinkOpens

\* The port that Load binds is one the file asks for, if there is any.
LEMMA BindsAsked ==
  ASSUME IsInt(port), NEW p \in Bindable(Narrowed(Number[port]))
  PROVE  /\ p \in 1..Ports - 1 \ env.used
         /\ Number[port] % Ports = 0 \/ (p - Number[port]) % Ports = 0
BY NumberAssumption, BindableAsked DEF IsInt

LEMMA NothingType == Nothing \in [password : Passwords, seed : 0..Words - 1]
<1>1. Words \in Nat \ {0}
  BY WidthAssumption
<1>2. 0 \in 0..Words - 1
  BY <1>1
<1>. QED
  BY <1>2 DEF Nothing, Passwords

LEMMA InitIInv == Init => IInv
BY NothingType DEF Init, IInv, TypeOK, MadeBeforeUse, GivenUp, LoadedIsWhole, Fresh

\* A loaded plugin comes out of LoadCompletes, which has read the file.
LEMMA LoadingIsWhole == TypeOK /\ Loading => LoadedIsWhole'
<1>. SUFFICES ASSUME TypeOK, Loading, phase' = "loaded"
              PROVE  LoadedIsWhole'
  BY DEF LoadedIsWhole
<1>1. LoadCompletes
  BY DEF Loading, LoadLogThrows, LoadWithoutLog, LoadWithoutConfig, LoadWithoutPassword,
         LoadWithoutPort, LoadWithoutSeed, Ends
<1>2. env' = env /\ made' = Globals /\ logger' = "open"
  BY <1>1 DEF LoadCompletes, HasPassword, Opened, Ends
<1>3. env.config \in Files /\ HasArg(entries, "api_password", 0)
  BY <1>1 DEF LoadCompletes, HasPassword, Opened, Environment, TypeOK
<1>4. /\ port = Configured("api_port", "7778")
      /\ seed = Configured("api_seed", "17733194")
      /\ Arg(entries, "api_password", 0) = Configured("api_password", "")
  BY <1>3, ReadsOptions
<1>5. /\ settings'.password = Configured("api_password", "")
      /\ (settings'.seed - Number[seed]) % Words = 0
  <2>1. Number[seed] \in Int
    BY <1>1, NumberAssumption DEF LoadCompletes, IsULong
  <2>. QED
    BY <1>1, <1>4, <2>1, SeedWord DEF LoadCompletes
<1>6. /\ listening' \in 1..Ports - 1 \ env.used
      /\ Number[port] % Ports = 0 \/ (listening' - Number[port]) % Ports = 0
  BY <1>1, BindsAsked DEF LoadCompletes
<1>7. \A option, default : Configured(option, default)' = Configured(option, default)
  BY <1>2, SameEnv
<1>. QED
  BY <1>2, <1>4, <1>5, <1>6, <1>7 DEF LoadedIsWhole

\* Nothing that a loaded plugin does takes any of it away before Unload.
LEMMA StaysWhole ==
  ASSUME LoadedIsWhole, phase' = phase,
         UNCHANGED <<env, made, logger, listening, settings>>
  PROVE  LoadedIsWhole'
<1>1. \A option, default : Configured(option, default)' = Configured(option, default)
  BY DEF Configured
<1>. QED
  BY <1>1 DEF LoadedIsWhole

LEMMA LoadedHasAll ==
  LoadedIsWhole /\ phase = "loaded" => made = Globals /\ logger = "open" /\ listening # NoPort
<1>1. ASSUME LoadedIsWhole, phase = "loaded"
      PROVE  made = Globals /\ logger = "open" /\ listening \in 1..Ports - 1
  BY <1>1 DEF LoadedIsWhole
<1>2. NoPort \notin 1..Ports - 1
  BY PortsAssumption DEF NoPort
<1>. QED
  BY <1>1, <1>2

\* Each end of Load keeps types and pointers; the settings are 32 bits of whatever was asked.
LEMMA LoadingTypes == IInv /\ Loading => TypeOK' /\ MadeBeforeUse'
<1>. SUFFICES ASSUME IInv, Loading
              PROVE  TypeOK' /\ MadeBeforeUse'
  OBVIOUS
<1>. USE DEF IInv, TypeOK, MadeBeforeUse, Ends, Messages, Globals
<1>0. Nothing \in [password : Passwords, seed : 0..Words - 1]
  BY NothingType
<1>1. CASE LoadLogThrows
  BY <1>0, <1>1 DEF LoadLogThrows, NoEndpoint, Quiet
<1>2. CASE LoadWithoutLog
  BY <1>0, <1>2 DEF LoadWithoutLog, NoEndpoint
<1>3. CASE LoadWithoutConfig
  BY <1>0, <1>3 DEF LoadWithoutConfig, NoEndpoint, Tell
<1>4. CASE LoadWithoutPassword
  BY <1>0, <1>4 DEF LoadWithoutPassword, Opened, NoEndpoint, Tell
<1>5. CASE LoadWithoutPort
  BY <1>0, <1>5 DEF LoadWithoutPort, HasPassword, Opened, NoEndpoint, Quiet
<1>6. CASE LoadWithoutSeed
  <2>1. listening' \in 1..Ports - 1
    BY <1>6, BindsAsked DEF LoadWithoutSeed
  <2>2. Arg(entries, "api_password", 0) \in Passwords
    BY <1>6, ReadsOptions DEF LoadWithoutSeed, HasPassword, Opened, Environment
  <2>3. settings' \in [password : Passwords, seed : 0..Words - 1]
    BY <1>0, <1>6, <2>2 DEF LoadWithoutSeed
  <2>. QED
    BY <1>6, <2>1, <2>3 DEF LoadWithoutSeed, HasPassword, Opened, Quiet
<1>7. CASE LoadCompletes
  <2>1. listening' \in 1..Ports - 1
    BY <1>7, BindsAsked DEF LoadCompletes
  <2>2. Arg(entries, "api_password", 0) \in Passwords
    BY <1>7, ReadsOptions DEF LoadCompletes, HasPassword, Opened, Environment
  <2>3. Seed(Number[seed]) \in 0..Words - 1
    BY <1>7, NumberAssumption, SeedWord DEF LoadCompletes, IsULong
  <2>4. settings' \in [password : Passwords, seed : 0..Words - 1]
    BY <1>7, <2>2, <2>3 DEF LoadCompletes
  <2>. QED
    BY <1>7, <2>1, <2>4 DEF LoadCompletes, HasPassword, Opened, Tell
<1>. QED
  BY <1>1, <1>2, <1>3, <1>4, <1>5, <1>6, <1>7 DEF Loading

\* Each end of Load that gives up leaves behind what GivenUp says.
LEMMA LoadingGivesUp == IInv /\ Loading => GivenUp'
<1>. SUFFICES ASSUME IInv, Loading
              PROVE  GivenUp'
  OBVIOUS
<1>1. /\ env' = env
      /\ said = {}
      /\ phase = "new"
  BY DEF IInv, Fresh, Loading, LoadLogThrows, LoadWithoutLog, LoadWithoutConfig,
         LoadWithoutPassword, LoadWithoutPort, LoadWithoutSeed, LoadCompletes, Ends
<1>2. /\ \A option, default : Configured(option, default)' = Configured(option, default)
      /\ PathThrows' <=> PathThrows
      /\ SinkOpens' <=> SinkOpens
      /\ PortFree' <=> PortFree
  BY <1>1, SameEnv
<1>3. Opened => env.config \in Files
  BY DEF IInv, TypeOK, Environment, Opened
<1>4. CASE LoadLogThrows
  BY <1>1, <1>2, <1>4 DEF LoadLogThrows, GivenUp, Ends, NoEndpoint, Quiet
<1>5. CASE LoadWithoutLog
  BY <1>1, <1>2, <1>5 DEF LoadWithoutLog, GivenUp, Ends, NoEndpoint
<1>6. CASE LoadWithoutConfig
  BY <1>1, <1>2, <1>6 DEF LoadWithoutConfig, GivenUp, Ends, NoEndpoint, Tell
<1>7. CASE LoadWithoutPassword
  <2>1. Defining(env.config, "api_password") = {}
    BY <1>3, <1>7, ReadsConfigured DEF LoadWithoutPassword
  <2>. QED
    BY <1>1, <1>2, <1>7, <2>1 DEF LoadWithoutPassword, Opened, GivenUp, Ends, NoEndpoint, Tell
<1>8. CASE LoadWithoutPort
  <2>1. port = Configured("api_port", "7778")
    BY <1>3, <1>8, ReadsOptions DEF LoadWithoutPort, HasPassword
  <2>2. ~ PortFree
    <3>1. IsInt(port) => /\ Number[port] \in Int
                         /\ Bindable(Narrowed(Number[port])) = {}
      BY <1>8, NumberAssumption DEF LoadWithoutPort, IsInt
    <3>. QED
      BY <2>1, <3>1, BindableAsked DEF PortFree
  <2>. QED
    BY <1>1, <1>2, <1>8, <2>2 DEF LoadWithoutPort, GivenUp, Ends, NoEndpoint, Quiet
<1>9. CASE LoadWithoutSeed
  <2>1. seed = Configured("api_seed", "17733194")
    BY <1>3, <1>9, ReadsOptions DEF LoadWithoutSeed, HasPassword
  <2>2. listening' # NoPort
    BY <1>9, BindsAsked DEF LoadWithoutSeed, NoPort
  <2>. QED
    BY <1>1, <1>2, <1>9, <2>1, <2>2 DEF LoadWithoutSeed, GivenUp, Ends, Quiet
<1>10. CASE LoadCompletes
  <2>1. listening' # NoPort
    BY <1>10, BindsAsked DEF LoadCompletes, NoPort
  <2>. QED
    BY <1>1, <1>10, <2>1 DEF LoadCompletes, GivenUp, Ends, Tell
<1>. QED
  BY <1>4, <1>5, <1>6, <1>7, <1>8, <1>9, <1>10 DEF Loading

LEMMA LoadingIInv == IInv /\ Loading => IInv'
<1>. SUFFICES ASSUME IInv, Loading
              PROVE  IInv'
  OBVIOUS
<1>1. LoadedIsWhole'
  BY LoadingIsWhole DEF IInv
<1>2. Fresh'
  BY DEF Fresh, Loading, LoadLogThrows, LoadWithoutLog, LoadWithoutConfig,
         LoadWithoutPassword, LoadWithoutPort, LoadWithoutSeed, LoadCompletes, Ends
<1>. QED
  BY <1>1, <1>2, LoadingTypes, LoadingGivesUp DEF IInv

-----------------------------------------------------------------------------
(* The loaded plugin. *)

\* What was given up stays as it was left.
LEMMA StaysGivenUp ==
  ASSUME GivenUp, UNCHANGED <<env, phase, listening, said>>
  PROVE  GivenUp'
<1>1. /\ \A option, default : Configured(option, default)' = Configured(option, default)
      /\ PathThrows' <=> PathThrows
      /\ SinkOpens' <=> SinkOpens
      /\ PortFree' <=> PortFree
  BY SameEnv
<1>. QED
  BY <1>1 DEF GivenUp

LEMMA StepIInv == IInv /\ [Next]_vars => IInv'
<1>. SUFFICES ASSUME IInv, [Next]_vars
              PROVE  IInv'
  OBVIOUS
<1>. USE BuildAssumption DEF IInv, TypeOK, MadeBeforeUse, Fresh
<1>0. phase = "loaded" => made = Globals /\ logger = "open" /\ listening # NoPort
  BY LoadedHasAll
<1>1. CASE Loading
  BY <1>1, LoadingIInv
<1>2. ASSUME NEW up \in BOOLEAN, GameMode(up)
      PROVE  IInv'
  BY <1>0, <1>2, StaysWhole, StaysGivenUp DEF GameMode, Debug, Globals
<1>3. CASE OnPlayer
  BY <1>0, <1>3, StaysWhole, StaysGivenUp DEF OnPlayer, Uses, Globals
<1>4. CASE ProcessTick
  BY <1>0, <1>4, StaysWhole, StaysGivenUp DEF ProcessTick, Uses
<1>5. CASE Unload
  BY <1>0, <1>5 DEF LoadedIsWhole, GivenUp, Unload, Uses, Globals
<1>6. CASE UNCHANGED vars
  BY <1>0, <1>6, StaysWhole, StaysGivenUp DEF vars
<1>. QED
  BY <1>1, <1>2, <1>3, <1>4, <1>5, <1>6 DEF Next, OnGameModeInit, OnGameModeExit

LEMMA Invariance == Spec => []IInv
BY InitIInv, StepIInv, PTL DEF Spec

\* Every variable keeps its type: a port held is a port, the seed a word of 32 bits and the
\* password a word of server.cfg, whatever numbers the file has.
THEOREM PluginTypeTheorem == Spec => []TypeOK
BY Invariance, PTL DEF IInv

\* No global is used before it is made or after it is gone, and no logger before it is set up.
THEOREM MadeTheorem == Spec => []MadeBeforeUse
BY Invariance, PTL DEF IInv

\* What each way to give up leaves behind: which of them holds a port, what it has said, and that
\* an exception of Load has the log's directory, the port or the seed to blame.
THEOREM GivenUpTheorem == Spec => []GivenUp
BY Invariance, PTL DEF IInv

\* A plugin that the server goes on to call has what the first line of server.cfg for each option
\* gives it, as far as 16 and 32 bits hold it, whatever lines there are.
THEOREM WholeTheorem == Spec => []LoadedIsWhole
BY Invariance, PTL DEF IInv
===============================================================================
