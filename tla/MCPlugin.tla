-------------------------------- MODULE MCPlugin -------------------------------
(***************************************************************************)
(* Instances of Plugin for TLC.                                            *)
(***************************************************************************)
EXTENDS Plugin, TLC

\* 16 ports, ints and words of 6 bits, unsigned longs of 12.  As a port "23" is 7, "16" is 0 and "-9"
\* is 7; "40" is no int, so that stoi throws, but a seed; "-9" as a seed is 55 and "300" is 44; "5000"
\* is neither.  "7778" and "17733194" are the defaults of Load, "port" and "seed" no numbers, "" the
\* word after a last blank.
MCNumber ==
  "7778" :> 7 @@ "17733194" :> 4 @@ "3" :> 3 @@ "0" :> 0 @@ "16" :> 16 @@ "23" :> 23 @@ "-9" :> -9
  @@ "40" :> 40 @@ "300" :> 300 @@ "5000" :> 5000

MCFiles ==
  LET password == <<"api_password", "secret">>
  IN  { << >>, << password >>, << <<"api_port", "3">> >>,
        << <<"api_port">>, password, <<"api_port", "3">>, <<"api_port", "0">> >> }
      \cup { << password, <<"api_port", word>> >> :
               word \in {"3", "0", "16", "23", "-9", "40", "port", ""} }
      \cup { << password, <<"api_seed", word, "x">> >> :
               word \in {"3", "-9", "40", "300", "5000", "seed"} }
===============================================================================
