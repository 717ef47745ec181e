------------------------------ MODULE MCProcess ------------------------------
(***************************************************************************)
(* Instances of Process: every signing configuration of up to two keys     *)
(* with good values elsewhere, and every other field with a good signing   *)
(* configuration; strings come with and without white space around them.   *)
(***************************************************************************)
EXTENDS Process

MCTrimSpace(s) ==
    CASE s = " " -> "" [] s = " k1 " -> "k1" [] s = "/ / " -> "/ /" [] s = "/ " -> "/"
      [] s = "iss " -> "iss" [] OTHER -> s

MCTrimIssuer(s) ==
    CASE s = " " -> "" [] s = "/ / /" -> "/ / " [] s = "/ / " -> "/ " [] s = "/ /" -> "/ "
      [] s = "/ " -> "" [] s = "iss /" -> "iss " [] s = "iss " -> "iss" [] OTHER -> s

MCOnCurve(x, y) == x = y

MCParseDuration(s) ==
    CASE s = "0s" -> 0 [] s = "-1s" -> -10 [] s = "500ms" -> 5 [] s = "1s" -> 10 [] s = "1m" -> 600
      [] OTHER -> Absent

MCStrings == {"", " ", "k1", " k1 ", "k2", "default", "p", "E", "iss",
              "/ / /", "/ / ", "/ /", "/ ", "/", "iss /", "iss ", "0s", "-1s", "500ms", "1s", "1m", "1x"}

MCKey == [kid : {"", " k1 ", "k1", "k2"}, path : {"", "p"}, env : {"", "E"}]

Good == [issuer |-> "iss", ttl |-> "", activeKID |-> "", wellFormed |-> TRUE,
         rateLimit |-> [limit |-> Absent, window |-> Absent],
         clients |-> <<[id |-> "c", valid |-> TRUE]>>, key |-> Absent, keys |-> Absent]

MCSigning ==
    {[Good EXCEPT !.key = k, !.keys = ks, !.activeKID = a] :
        k \in {Absent, NoKey, [NoKey EXCEPT !.kid = "k1", !.path = "p"]},
        ks \in {Absent, <<>>} \cup {<<k1>> : k1 \in MCKey}
               \cup {<<k1, [NoKey EXCEPT !.kid = "k2", !.path = "p"]>> : k1 \in MCKey},
        a \in {"", "k1", " k1 ", "k2", "default"}}

MCOther ==
    {[Good EXCEPT !.ttl = t, !.rateLimit = [limit |-> l, window |-> w]] :
        t \in {"", " ", "0s", "500ms", "1s", "1x"}, l \in {Absent, -1, 0, 5},
        w \in {Absent, "", " ", "-1s", "0s", "1m", "1x"}}
    \cup {[Good EXCEPT !.issuer = i, !.wellFormed = f, !.clients = c] :
        i \in {"", " ", "iss", "iss /", "/ /", "/ / /"}, f \in BOOLEAN,
        c \in {<<>>, <<[id |-> "c", valid |-> FALSE]>>,
               <<[id |-> "c", valid |-> TRUE], [id |-> "c", valid |-> TRUE]>>,
               <<[id |-> "c", valid |-> TRUE], [id |-> "d", valid |-> TRUE]>>}}

MCConfigs == MCSigning \cup MCOther
=============================================================================
