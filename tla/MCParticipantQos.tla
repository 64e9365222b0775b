--------------------------- MODULE MCParticipantQos ---------------------------
EXTENDS ParticipantQos

\* atoi of an address reads its first number.
MCAtoI == [f \in Fields |->
  CASE f = "10.0.0.1" -> 10 [] f = "7" -> 7 [] f = "17" -> 17 [] f = "-1" -> -1 [] OTHER -> 0]

\* As documented, without port, with a name, without digits, and with ports
\* that are negative, too great, or followed by more.
MCTexts == {<<"10.0.0.1", "7">>, <<"10.0.0.1">>, <<"host", "7">>, <<"10.0.0.1", "host">>,
            <<"10.0.0.1", "-1">>, <<"10.0.0.1", "17">>, <<"10.0.0.1", "7", "17">>}
=============================================================================
