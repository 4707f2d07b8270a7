------------------------------- MODULE MCRequests ------------------------------
(***************************************************************************)
(* Instances of Requests for TLC.                                          *)
(***************************************************************************)
EXTENDS Requests

\* server.cfg: no whitelist; two addresses; two lines; an option without blank; a blank address.
MCFiles ==
  LET password == <<"api_password", "secret">>
      both     == <<"api_ip_whitelist", "ip1", "ip2">>
  IN  { << password >>,
        << both, password, <<"api_password", "other">> >>,
        << password, <<"api_ip_whitelist", "ip1">>, <<"api_ip_whitelist", "ip2">> >>,
        << <<"api_ip_whitelist">>, password, <<"api_ip_whitelist", "ip2", "">> >>,
        << <<"api_ip_whitelist", "">>, password >> }

MCTargets ==
  { <<"player", "list">>, <<"player", "kick", "bob">>, <<"player", "ban", "bob">>,
    <<"player", "kick", "">>, <<"player", "kick">>, <<"misc", "say">>, <<"misc", "ip", "ban">>,
    <<"misc", "ip", "unban">>, <<"settings", "gravity">>, <<"settings", "weather">> }

\* Two targets may have the same hash.
MCXXH32 == [target \in MCTargets |-> IF target[1] = "player" THEN "h1" ELSE "h2"]

MCParams ==
  { {}, {<<"color", "number">>, <<"name", "string">>, <<"message", "string">>},
    {<<"address", "string">>, <<"gravity", "number">>},
    {<<"ip", "string">>, <<"value", "number">>}, {<<"value", "string">>} }
===============================================================================
