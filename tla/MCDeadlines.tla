----------------------------- MODULE MCDeadlines -----------------------------
(***************************************************************************)
(* Instances of Deadlines: the defaults, with every timeout at its real    *)
(* length, and configurations with short timeouts in which up to two       *)
(* fields were changed, also to values that must be refused.               *)
(***************************************************************************)
EXTENDS Deadlines

WithSource == [Defaults EXCEPT !.enabledSources = 1]

Short == [WithSource EXCEPT !.writeTimeout = 19, !.validationTimeout = 2,
    !.requestTimeout = 2, !.sourceTimeout = 6, !.healthDelay = 1, !.interval = 1]

Changes(c) ==
    {[c EXCEPT !.listen = v] : v \in {"remote", "malformed"}}
    \cup {[c EXCEPT !.tokenFile = v] : v \in SecretFile}
    \cup {[c EXCEPT !.secretFile = v] : v \in {"unusable", "usable"}}
    \cup {[c EXCEPT !.controllerListen = v] : v \in {"remote", "malformed"}}
    \cup {[c EXCEPT !.allowRemote = TRUE], [c EXCEPT !.enforceRuntime = FALSE],
          [c EXCEPT !.scheduled = FALSE], [c EXCEPT !.otherFieldsValid = FALSE]}
    \cup {[c EXCEPT !.interval = v] : v \in {-1, 0}}
    \cup {[c EXCEPT !.writeTimeout = v] : v \in {-1, 0, 5, 13}}
    \cup {[c EXCEPT !.requestTimeout = v] : v \in {-1, 0, 1}}
    \cup {[c EXCEPT !.validationTimeout = v] : v \in {-1, 0}}
    \cup {[c EXCEPT !.sourceTimeout = v] : v \in {-1, 0}}
    \cup {[c EXCEPT !.healthDelay = v] : v \in {-1, 0, 2}}
    \cup {[c EXCEPT !.backupRetention = v] : v \in {-1, 0, 1}}
    \cup {[c EXCEPT !.historyRetention = v] : v \in {-1, 0, 1}}
    \cup {[c EXCEPT !.enabledSources = v] : v \in {0, 2}}

ShortAndChanged ==
    LET once == Changes(Short) IN {Short} \cup once \cup UNION {Changes(c) : c \in once}

MCConfigs == {Defaults} \cup {WithSource} \cup ShortAndChanged
=============================================================================
