---------------------------- MODULE Attestations ----------------------------
(***************************************************************************)
(* The validator-attestation checks of app/crypto.py as pure operators: a  *)
(* bundle of attestations against a result, its report_data and the set of *)
(* active validators.                                                      *)
(*                                                                         *)
(* A hash is a value. The fields model_hash, output_hash and               *)
(* decode_policy_hash are only ever compared together and are one value,   *)
(* "rest". A signature is what was signed and by which key: it verifies    *)
(* for exactly that content and that key. report_data is a hash of the     *)
(* claim it commits to and stands for it.                                  *)
(***************************************************************************)
EXTENDS Integers, FiniteSets, Sequences

CONSTANTS
    Validators,     \* validator ids, active or not
    Tasks,          \* 32-byte task hashes
    Weights,        \* gn_weight values (u64)
    Latencies,      \* latency_ms values (u64)
    Rests, Tees, Hardware,
    Num, Den,       \* FLOP_VALIDATOR_THRESHOLD, a fraction
    NoResult        \* no result.created, or one that is not validator-ready

ASSUME ThresholdAssumption ==
    Num \in Nat /\ Den \in Nat /\ 0 < Num /\ Num <= Den
ASSUME NumbersAssumption == Weights \subseteq Nat /\ Latencies \subseteq Nat
ASSUME ValidatorsAssumption == IsFiniteSet(Validators)

(* The seven fields a result is bound by.                                  *)
Claim == [task : Tasks, gn : Weights, latency : Latencies, rest : Rests,
          tee : Tees]

ASSUME NoResultAssumption == NoResult \notin Claim

(* The ten signed fields, and the attestation with its signer.             *)
Signable    == [claim : Claim, hardware : Hardware, quote : BOOLEAN,
                log : BOOLEAN]
Attestation == [content : Signable, validator : Validators,
                sig : [by : Validators, over : Signable]]

-----------------------------------------------------------------------------
(* Mutation: rounds down. *)
QuorumFloor(active) ==
    IF (active * Num) \div Den > 1 THEN (active * Num) \div Den ELSE 1

(* calculate_validator_quorum: the ceiling of the threshold, at least 1.   *)
Quorum(active) ==
    LET required == (active * Num + Den - 1) \div Den
    IN  IF required > 1 THEN required ELSE 1

DistinctIds(bundle) ==
    \A i, j \in DOMAIN bundle :
        bundle[i].validator = bundle[j].validator => i = j

SignatureValid(a) == a.sig.by = a.validator /\ a.sig.over = a.content

(* verify_validator_attestation_quorum.                                    *)
QuorumVerified(bundle, registry) ==
    /\ bundle # <<>>
    /\ Len(bundle) >= Quorum(Cardinality(registry))
    /\ DistinctIds(bundle)
    /\ \A i \in DOMAIN bundle :
        /\ bundle[i].validator \in registry
        /\ bundle[i].content.quote /\ bundle[i].content.log
        /\ bundle[i].content = bundle[1].content
        /\ SignatureValid(bundle[i])

(* validate_gn_latency_throughput_tripwire, with its own numbers.          *)
ThroughputTripwire == 2000000
Plausible(gn, latency) ==
    latency > 0 /\ gn * 1000 <= ThroughputTripwire * latency

(* validator_attestation_matches_result                                    *)
MatchesResult(a, result) == a.content.claim = result

ReportMatches(a, report) == report = a.content.claim

(* verify_validator_attestation_bundle_for_result.                         *)
BundleVerified(bundle, result, report, registry) ==
    /\ bundle # <<>>
    /\ \A i \in DOMAIN bundle : MatchesResult(bundle[i], result)
    /\ ReportMatches(bundle[1], report)
    /\ QuorumVerified(bundle, registry)
    /\ Plausible(result.gn, result.latency)

(* The three other acceptance functions of the module, without a result.   *)
SingleVerified(bundle, report, registry) ==
    /\ Len(bundle) = 1
    /\ ReportMatches(bundle[1], report)
    /\ QuorumVerified(bundle, registry)

PlainBundleVerified(bundle, report, registry) ==
    /\ QuorumVerified(bundle, registry)
    /\ ReportMatches(bundle[1], report)

=============================================================================
