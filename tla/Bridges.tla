-------------------------------- MODULE Bridges --------------------------------
(***************************************************************************)
(* What `:bridges` concludes from Tor's answers on the control port: the   *)
(* bridge lines it accepts, how it reads a reply, and the verdict.  Pure   *)
(* operators; a line, a circuit and a reply are records, not text.         *)
(***************************************************************************)
EXTENDS Integers, FiniteSets, Sequences

CONSTANTS
    Fingerprints,          \* identity fingerprints of relays
    NoFingerprint,         \* a bridge line, or a hop, that shows none
    BadFingerprint         \* a token in its place that is not 40 hex digits

(* BridgeTransport: "other" is any token from_token does not know.         *)
Transports == {"vanilla", "obfs4", "snowflake", "webtunnel"}

BridgeLine ==
    [clean : BOOLEAN,                       \* short enough, only safe characters
     transport : Transports \cup {"other"},
     address : BOOLEAN,                     \* valid_address
     fingerprint : Fingerprints \cup {NoFingerprint, BadFingerprint},
     args : SUBSET {"cert", "iat-mode", "url", "bad"}]   \* keys with a good value

(* parse_bridge_line                                                       *)
Parses(l) ==
    /\ l.clean /\ l.transport \in Transports /\ l.address
    /\ l.fingerprint # BadFingerprint /\ "bad" \notin l.args
    /\ l.transport = "obfs4" => /\ l.fingerprint # NoFingerprint
                                /\ {"cert", "iat-mode"} \subseteq l.args
    /\ l.transport = "webtunnel" => "url" \in l.args

(* torrc as `GETCONF UseBridges Bridge ClientTransportPlugin` shows it.    *)
TorConf == [use : BOOLEAN, lines : SUBSET BridgeLine, plugins : SUBSET Transports]

(* A circuit in Tor's list.  Its number matters for the two first          *)
(* characters of its line: it is 250, it begins with a 5, or neither.      *)
Circuit == [id : {"250", "5", "plain"}, state : {"BUILT", "EXTENDED"},
            hop : Fingerprints \cup {NoFingerprint}]

----------------------------------------------------------------------------
(* Tor's reply to `GETINFO circuit-status`: one line for up to one         *)
(* circuit, else a header, a line per circuit and a dot; then the last.    *)
(* A line starts with "250-", "250+", "250_" for 250 and a blank, "5",     *)
(* "." or anything else.                                                   *)
Line(start, circuits) == [start |-> start, circuits |-> circuits]

DataStart(c) == CASE c.id = "250" -> "250_"
                  [] c.id = "5" -> "5"
                  [] c.id = "plain" -> "data"

CircuitStatusReply(circuits) ==
    LET data == [i \in DOMAIN circuits |-> Line(DataStart(circuits[i]), {circuits[i]})]
        body == CASE Len(circuits) = 0 -> <<Line("250-", {})>>
                  [] Len(circuits) = 1 -> <<Line("250-", {circuits[1]})>>
                  [] OTHER -> <<Line("250+", {})>> \o data \o <<Line(".", {})>>
    IN  body \o <<Line("250_", {})>>

(* read_control_reply: the reply ends with the first line that begins with *)
(* "250 " or with a 5.                                                     *)
ReadControlReply(lines) ==
    LET ends == {i \in DOMAIN lines : lines[i].start \in {"250_", "5"}}
        last == CHOOSE i \in ends : \A j \in ends : i <= j
    IN  SubSeq(lines, 1, last)

(* the `ok` of bridge_status_on                                            *)
Accepted(lines) == lines[Len(lines)].start = "250_"

(* built_first_hops, each with its line: one that begins "250 " is no      *)
(* circuit entry.                                                          *)
BuiltFirstHops(lines) ==
    {h \in UNION {{i} \X lines[i].circuits : i \in DOMAIN lines} :
        lines[h[1]].start # "250_" /\ h[2].state = "BUILT"}

(* evaluate_bridge_status                                                  *)
(* Bug: a hop that is not shown is left out of the count.                  *)
EvaluateShownHops(conf, boot, lines) ==
    LET bridges == {l \in conf.lines : Parses(l)}
        prints  == {l.fingerprint : l \in bridges} \ {NoFingerprint}
        plain   == \E l \in bridges : l.fingerprint = NoFingerprint
        hops    == IF plain THEN {} ELSE BuiltFirstHops(lines)
    IN  [use_bridges |-> conf.use,
         bridge_count |-> Cardinality(bridges),
         missing_plugins |-> {l.transport : l \in bridges} \ (conf.plugins \cup {"vanilla"}),
         bootstrap |-> boot,
         circuits_off_bridge |->
             Cardinality({h \in hops : h[2].hop \notin prints \cup {NoFingerprint}})]

EvaluateBridgeStatus(conf, boot, lines) ==
    LET bridges == {l \in conf.lines : Parses(l)}
        prints  == {l.fingerprint : l \in bridges} \ {NoFingerprint}
        plain   == \E l \in bridges : l.fingerprint = NoFingerprint
        hops    == IF plain THEN {} ELSE BuiltFirstHops(lines)
    IN  [use_bridges |-> conf.use,
         bridge_count |-> Cardinality(bridges),
         missing_plugins |-> {l.transport : l \in bridges} \ (conf.plugins \cup {"vanilla"}),
         bootstrap |-> boot,
         circuits_off_bridge |-> Cardinality({h \in hops : h[2].hop \notin prints})]

(* BridgeStatus::verdict                                                   *)
Verdict(st) ==
    CASE ~st.use_bridges -> "off"
      [] st.use_bridges /\ (st.bridge_count = 0 \/ st.missing_plugins # {}) -> "misconfigured"
      [] st.use_bridges /\ st.bridge_count > 0 /\ st.missing_plugins = {} /\ st.bootstrap < 100
            -> "notReady"
      [] OTHER -> IF st.circuits_off_bridge > 0 THEN "offBridge" ELSE "active"

(* Whoever answers on the control port: does PROTOCOLINFO offer            *)
(* SAFECOOKIE, does the cookie path it names resolve to an accepted one,   *)
(* is the file there a cookie, does the HMAC it answers AUTHCHALLENGE with *)
(* prove that it knows the cookie, does it take ours.                      *)
ControlPort == [offers : BOOLEAN, path : BOOLEAN, cookie : BOOLEAN,
                knows : BOOLEAN, accepts : BOOLEAN]

(* authenticate_cookie_only and safecookie_exchange: nothing more is sent  *)
(* after the first test that fails.                                        *)
Authenticates(p) == p.offers /\ p.path /\ p.cookie /\ p.knows /\ p.accepts

(* A Tor: does it run, who answers on the control port, its                *)
(* configuration, its bootstrap progress and its circuits.                 *)
Tor == [up : BOOLEAN, control : ControlPort, conf : TorConf, boot : 0..100,
        circuits : Seq(Circuit)]

(* query_bridge_status and bridge_status_on: is the verdict Active?  No    *)
(* answer, no proof of the cookie and a refused query all count as no.     *)
BridgesActive(t) ==
    LET reply == ReadControlReply(CircuitStatusReply(t.circuits))
    IN  /\ t.up /\ Authenticates(t.control)
        /\ Accepted(reply)
        /\ Verdict(EvaluateBridgeStatus(t.conf, t.boot, reply)) = "active"

(* What the module comment of bridges.rs calls "took effect": every built  *)
(* circuit starts at a configured bridge, if every bridge line names its   *)
(* fingerprint.                                                            *)
Bridged(t) ==
    LET bridges == {l \in t.conf.lines : Parses(l)}
    IN  /\ t.up /\ t.conf.use /\ bridges # {} /\ t.boot = 100
        /\ \/ \E l \in bridges : l.fingerprint = NoFingerprint
           \/ \A i \in DOMAIN t.circuits :
                t.circuits[i].state = "BUILT" =>
                    t.circuits[i].hop \in {l.fingerprint : l \in bridges}

============================================================================
