---------------------------- MODULE EngineRules -----------------------------
(***************************************************************************)
(* The engine held against the checks of internal/membership that it does  *)
(* not make itself: certificates against ValidateQC.                       *)
(***************************************************************************)
EXTENDS DHotStuff, QuorumRules

(***************************************************************************)
(* quorum.go:58-65, of a certificate: enough signatures, of distinct       *)
(* members of the committee it names, each over its hash.  While every     *)
(* vote of the followers is needed, each certificate that justifies a      *)
(* proposal would pass ValidateQC, through timeouts, new views and a       *)
(* replica that has not installed that committee (dhotstuff.go:192-300,    *)
(* ecdsa_qc.go:15-57).                                                     *)
(***************************************************************************)
CertificatesValid ==
  \A k \in DOMAIN proposed :
    LET qc == proposed[k].justify
    IN  \/ qc \in {NoQC, GenesisQC}
        \/ \E r \in Replica : /\ Installed(configs[r], qc.conf)
                              /\ ValidateQC(qc, AtNumber(configs[r], qc.conf))
=============================================================================
