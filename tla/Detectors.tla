------------------------------ MODULE Detectors ------------------------------
(***************************************************************************)
(* The built-in detectors (crates/vigil-detect) and the result type they   *)
(* share (crates/vigil-protocol/src/detector.rs).  They are functions of   *)
(* the action; what makes them worth modelling is that each runs under a   *)
(* deadline and may fail on its own.                                       *)
(*                                                                         *)
(* Recognising text is left out.  A string is given as what the tables and *)
(* patterns find in it: the phrases that occur, the obfuscation, the data  *)
(* classes and the URLs.  Scores are in ten-thousandths.                   *)
(***************************************************************************)
EXTENDS DecisionRules

Detectors == <<"injection", "dlp", "network", "command">>

DegradedRiskFloor == 3500

Result(outcome, risk, confidence, proposed) ==
    [outcome |-> outcome, risk |-> risk, confidence |-> confidence, proposed |-> proposed]

completed(risk, confidence) == Result("Completed", risk, confidence, None)
clean                       == completed(0, Whole)
skipped                     == Result("Skipped", 0, Whole, None)
degraded(outcome)           == Result(outcome, DegradedRiskFloor, 0, None)

(* A detector cannot propose to let anything through.                      *)
proposing(r, decision) ==
    [r EXCEPT !.proposed = IF permits_execution(decision) THEN None ELSE decision]

is_degraded(outcome) == outcome \in {"TimedOut", "Errored"}

weighted_risk(r) ==
    IF is_degraded(r.outcome) THEN r.risk ELSE (r.risk * r.confidence) \div Whole

-----------------------------------------------------------------------------
(* Prompt injection.                                                       *)

IndicatorWeight ==
    [InstructionOverride |-> 3500, RoleSpoofing |-> 4500, SecretSolicitation |-> 3000,
     ExfiltrationDirective |-> 3000, GuardrailEvasion |-> 4000, AuthorityClaim |-> 4000]

SignalWeight ==
    [bidi_controls |-> 3500, invisible_characters |-> 2500, confusables |-> 2000,
     hidden_markup |-> 2500, encoded_blobs |-> 1000]

obfuscation_risk(signals) == Min({8000, MapThenSumSet(LAMBDA s : SignalWeight[s], signals)})

MinAggressiveLength == 10

(* A phrase written with separators counts when its indicator says so and  *)
(* its stripped form is long enough to be distinctive.                     *)
evaded(h) == ~h.plain /\ h.aggressive /\ h.stripped_length >= MinAggressiveLength

scan(text) ==
    LET hits     == {h \in text.indicators : h.plain \/ evaded(h)}
        families == {h.family : h \in hits}
        score    == MapThenSumSet(LAMBDA h : IndicatorWeight[h.family], hits)
                    + (IF \E h \in hits : evaded(h) THEN 3500 ELSE 0)
                    + obfuscation_risk(text.signals)
    IN  [risk       |-> Min({Whole, score}),
         confidence |-> CASE families = {} -> IF text.signals # {} THEN 5000 ELSE Whole
                          [] Cardinality(families) = 1 -> 6000
                          [] Cardinality(families) = 2 -> 8000
                          [] OTHER -> 9500]

(* The first of the riskiest strings; with no risk at all, the default     *)
(* findings, which claim no confidence.                                    *)
peak(texts) ==
    LET found == [i \in DOMAIN texts |-> scan(texts[i])]
        worst == Max({0} \cup {found[i].risk : i \in DOMAIN found})
    IN  IF worst = 0 THEN [risk |-> 0, confidence |-> 0]
        ELSE found[Min({i \in DOMAIN found : found[i].risk = worst})]

InjectionDetector(untrusted, strings, influence) ==
    LET p == peak(untrusted \o strings)
        r == completed(p.risk, p.confidence)
    IN  IF p.risk >= 7000 /\ influence THEN proposing(r, "Deny")
        ELSE IF p.risk >= 5000 THEN proposing(r, "RequireApproval") ELSE r

-----------------------------------------------------------------------------
(* Secrets and personal data.                                              *)

risk_weight ==
    [private_key |-> 10000, cloud_credential |-> 10000, api_key |-> 9000, database_uri |-> 9000,
     password |-> 9000, jwt |-> 8000, payment_card |-> 8000, high_entropy_secret |-> 7000,
     national_id |-> 7000, email_address |-> 3000, phone_number |-> 3000, ip_address |-> 2000]

taint(class) ==
    CASE class \in {"api_key", "high_entropy_secret", "private_key"}     -> "Secret"
      [] class \in {"cloud_credential", "database_uri", "password"}      -> "Credential"
      [] class = "jwt"                                                   -> "AuthenticationData"
      [] class = "payment_card"                                          -> "FinancialData"
      [] OTHER                                                           -> "Pii"

classify_all(strings) == UNION {strings[i].data : i \in DOMAIN strings}
taints_of(classes)    == {taint(c) : c \in classes}
peak_risk(classes)    == Max({0} \cup {risk_weight[c] : c \in classes})

(* Whether the action crosses a boundary is asked of its intrinsic effect, *)
(* not of the manifest's.                                                  *)
DlpDetector(a) ==
    LET found == classify_all(a.strings)
        r     == completed(peak_risk(found), 9000)
    IN  IF found = {} THEN clean
        ELSE IF r.risk >= 9000 /\ is_egress(a.intrinsic) THEN proposing(r, "Deny") ELSE r

-----------------------------------------------------------------------------
(* Destinations.  An address is given as the range it lies in.             *)

class_risk ==
    [CloudMetadata |-> 10000, Loopback |-> 8500, LinkLocal |-> 8500, Unspecified |-> 8500,
     PrivateNetwork |-> 7500, Unresolved |-> 2000, Public |-> 0]

is_ssrf(class) == class \notin {"Public", "Unresolved"}

(* The metadata addresses lie in the link-local and shared ranges and are  *)
(* asked about first.                                                      *)
classify_ip ==
    [metadata_address |-> "CloudMetadata", unspecified |-> "Unspecified",
     this_network |-> "Unspecified", loopback |-> "Loopback", link_local |-> "LinkLocal",
     private |-> "PrivateNetwork", broadcast |-> "PrivateNetwork",
     documentation |-> "PrivateNetwork", carrier_nat |-> "PrivateNetwork",
     unique_local |-> "PrivateNetwork", public |-> "Public"]

classify_host(host) ==
    CASE host = "metadata_name"       -> "CloudMetadata"
      [] host \in DOMAIN classify_ip  -> classify_ip[host]
      [] host = "inward_name"         -> "Loopback"
      [] OTHER                        -> "Unresolved"

(* A name the resolver answered for is as bad as the worst answer; a hop   *)
(* of the redirect chain counts when it leaves the public network.         *)
network_analyze(u) ==
    LET named    == classify_host(u.host)
        resolved == {classify_ip[x] : x \in u.resolved}
        base     == IF resolved # {} /\ named = "Unresolved" THEN "Public" ELSE named
        worst    == CHOOSE c \in {base} \cup resolved :
                      \A d \in {base} \cup resolved : class_risk[d] <= class_risk[c]
        ssrf     == {c \in {worst} \cup {classify_host(h) : h \in u.hops} : is_ssrf(c)}
    IN  IF ~u.parses THEN [risk |-> 5000, metadata |-> FALSE]
        ELSE [risk     |-> Max({0} \cup {class_risk[c] : c \in ssrf}
                                \cup (IF u.scheme_allowed THEN {} ELSE {9000})
                                \cup (IF u.credentials THEN {6000} ELSE {})),
              metadata |-> "CloudMetadata" \in ssrf]

urls_of(a) ==
    IF a.kind = "network" THEN {a.url} ELSE UNION {a.strings[i].urls : i \in DOMAIN a.strings}

(* Of several URLs only the riskiest is kept; a metadata endpoint is the   *)
(* riskiest there is.                                                      *)
NetworkDetector(a) ==
    LET found == {network_analyze(u) : u \in urls_of(a)}
        risk  == Max({0} \cup {f.risk : f \in found})
        r     == completed(risk, 9500)
    IN  IF a.kind # "network" /\ urls_of(a) = {} THEN skipped
        ELSE IF risk = 0 THEN clean
        ELSE IF \E f \in found : f.metadata THEN proposing(r, "Deny") ELSE r

-----------------------------------------------------------------------------
(* Interpreters: what analyze_shell, analyze_sql and analyze_path notice.  *)

shell_risk ==
    [dangerous_command |-> 9500, interpreted_metacharacters |-> 8000, argument_metacharacters |-> 6000]
sql_risk ==
    [structural_operation |-> 9000, injection_pattern |-> 9000, stacked_query |-> 8500,
     unbound_literals |-> 3000]
path_risk ==
    [null_byte |-> 9000, escapes_base |-> 8500, outside_roots |-> 8000, encoded_traversal |-> 7000]

analyze_shell(noticed, uses_shell) ==
    noticed \ (IF uses_shell THEN {} ELSE {"interpreted_metacharacters"})
analyze_sql(noticed, bound) ==
    noticed \ (IF bound THEN {"unbound_literals"} ELSE {})
analyze_path(noticed, paths, roots) ==
    noticed \cup (IF roots # {} /\ \E p \in paths : p \cap roots = {}
                  THEN {"outside_roots"} ELSE {})

CommandSafetyDetector(a, roots) ==
    LET worst(risks, noticed) == Max({0} \cup {risks[n] : n \in noticed})
        risk == CASE a.kind = "shell"    -> worst(shell_risk, analyze_shell(a.noticed, a.uses_shell))
                  [] a.kind = "database" -> worst(sql_risk, analyze_sql(a.noticed, a.bound))
                  [] a.kind = "file"     -> worst(path_risk, analyze_path(a.noticed, a.paths, roots))
                  [] OTHER               -> 0
        r    == completed(risk, 9000)
    IN  IF a.kind \notin {"shell", "database", "file"} THEN skipped
        ELSE IF risk = 0 THEN clean
        ELSE IF risk >= 8500 THEN proposing(r, "Deny") ELSE r

-----------------------------------------------------------------------------
(* run_one: a detector that does not apply is not run and cannot fail; one *)
(* that errs or overruns its deadline leaves its floor and no proposal.    *)
run_one(d, a, untrusted, influence, roots, failed) ==
    LET r == CASE d = "injection" -> InjectionDetector(untrusted, a.strings, influence)
               [] d = "dlp"       -> DlpDetector(a)
               [] d = "network"   -> NetworkDetector(a)
               [] d = "command"   -> CommandSafetyDetector(a, roots)
    IN  IF r.outcome # "Skipped" /\ d \in failed THEN degraded("TimedOut") ELSE r

(* run_all: results in registration order, whoever finished first.         *)
run_all(a, untrusted, influence, roots, failed) ==
    [i \in DOMAIN Detectors |->
        run_one(Detectors[i], a, untrusted, influence, roots, failed)]
=============================================================================
