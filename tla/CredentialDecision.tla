-------------------------- MODULE CredentialDecision --------------------------
(***************************************************************************)
(* The tier a verification case earns, computed twice: by the TypeScript   *)
(* preflight (recompute-provider-tier.ts, tier.ts) and by the database     *)
(* function finalize_verification_case (migration 004), which throws the   *)
(* decision away when the two differ.  A date is a number; the check lists *)
(* and policy lists, whose order no code reads, are sets and functions.    *)
(*                                                                         *)
(* A check is [seq, type, source, mode, result, checkedAt, validUntil].  A *)
(* policy is [sources, documents, identity, authority, freshness]: the     *)
(* evidence kind of each declared source, the sources each document and    *)
(* authority leg allows, and one leg [type, allowed] for identity.         *)
(***************************************************************************)
EXTENDS Naturals

CONSTANT NoDate  \* null: no valid_until, no expiry

ASSUME NoDateAssumption == NoDate \notin Nat

NonTierKinds == {"FORMAT_VALIDATION", "LLM_ADVISORY"}

(* What parseCredentialTierPolicy accepts, and finalize_verification_case   *)
(* demands again; duplicate identifiers, which both refuse, have no         *)
(* representation here.                                                     *)
ValidPolicy(p) ==
    /\ p.freshness \in Nat \ {0}
    /\ DOMAIN p.documents # {} /\ DOMAIN p.authority # {}
    /\ \A allowed \in {p.documents[t] : t \in DOMAIN p.documents}
                 \cup {p.authority[t] : t \in DOMAIN p.authority} \cup {p.identity.allowed} :
          allowed # {} /\ allowed \subseteq DOMAIN p.sources
    /\ \A t \in DOMAIN p.documents, s \in DOMAIN p.sources :
          s \in p.documents[t] => p.sources[s] \notin NonTierKinds
    /\ \A t \in DOMAIN p.authority, s \in DOMAIN p.sources :
          s \in p.authority[t] => p.sources[s] = "AUTHORITY"
    /\ p.identity.type \in DOMAIN p.documents
    /\ p.identity.allowed \subseteq p.documents[p.identity.type]
    /\ DOMAIN p.documents \cap DOMAIN p.authority = {}

Earliest(S) == CHOOSE d \in S : \A e \in S : d <= e
Decision(tier, reason, expiry) == [tier |-> tier, reason |-> reason, expiry |-> expiry]
NotFull(tier, reason) == Decision(tier, reason, NoDate)

\* Definitions named Faulty... are mutations of the definition that follows
\* them, used by no other definition.  The mode of a check is not looked at.
FaultyLive(checks, now) == {c \in checks : c.checkedAt <= now}

Live(checks, now) == {c \in checks : c.mode = "LIVE" /\ c.checkedAt <= now}

(***************************************************************************)
(* decideTierFromRecordedChecks                                            *)
(***************************************************************************)
LatestChecks(checks) ==
    {c \in checks : \A d \in checks :
        d.type = c.type /\ d.source = c.source => d.seq <= c.seq}

IsRequiredDocumentLeg(p, c) ==
    c.source \in DOMAIN p.sources /\ c.type \in DOMAIN p.documents /\ c.source \in p.documents[c.type]
IsIdentityConsistencyLeg(p, c) ==
    c.source \in DOMAIN p.sources /\ c.type = p.identity.type /\ c.source \in p.identity.allowed
IsCurrentAuthorityLeg(p, c) ==
    /\ c.source \in DOMAIN p.sources /\ p.sources[c.source] = "AUTHORITY"
    /\ c.type \in DOMAIN p.authority /\ c.source \in p.authority[c.type]

RelevantSources(p, t) ==
    (IF t \in DOMAIN p.documents THEN p.documents[t] ELSE {})
    \cup (IF t = p.identity.type THEN p.identity.allowed ELSE {})
    \cup (IF t \in DOMAIN p.authority THEN p.authority[t] ELSE {})

UnresolvedConflict(p, latest) ==
    \E c \in latest : c.result \in {"MISMATCH", "CONFLICT"} /\ c.source \in RelevantSources(p, c.type)

Unexpired(c, now) == c.validUntil = NoDate \/ c.validUntil > now

Contributing(p, latest, now) ==
    {c \in latest :
        /\ c.result = "PASS"
        /\ c.source \in DOMAIN p.sources /\ p.sources[c.source] \notin NonTierKinds
        /\ Unexpired(c, now)}

Fresh(p, c, now) == c.checkedAt + p.freshness > now

\* The newest check is taken to be the one recorded last.
FaultyNewest(S) == CHOOSE c \in S : \A d \in S : d.seq <= c.seq

(* Array.sort by checkedAt, then recordedSequence, both descending; [0].    *)
Newest(S) ==
    CHOOSE c \in S : \A d \in S :
        d.checkedAt < c.checkedAt \/ (d.checkedAt = c.checkedAt /\ d.seq <= c.seq)

DocumentChecks(p, good, t) == {c \in good : c.type = t /\ IsRequiredDocumentLeg(p, c)}
IdentityChecks(p, good) == {c \in good : IsIdentityConsistencyLeg(p, c)}
AuthorityChecks(p, good, t, now) ==
    {c \in good : c.type = t /\ IsCurrentAuthorityLeg(p, c) /\ Fresh(p, c, now)}

SelectedAuthority(p, good, now) ==
    {Newest(AuthorityChecks(p, good, t, now)) : t \in DOMAIN p.authority}
Selected(p, good, now) ==
    {Newest(DocumentChecks(p, good, t)) : t \in DOMAIN p.documents}
    \cup {Newest(IdentityChecks(p, good))} \cup SelectedAuthority(p, good, now)

\* The freshness of the authority check itself is forgotten.
FaultyExpiryCandidates(p, good, now) ==
    {now + p.freshness} \cup ({c.validUntil : c \in Selected(p, good, now)} \ {NoDate})

ExpiryCandidates(p, good, now) ==
    {now + p.freshness}
    \cup ({c.validUntil : c \in Selected(p, good, now)} \ {NoDate})
    \cup {c.checkedAt + p.freshness : c \in SelectedAuthority(p, good, now)}

decideVerificationTier(p, good, now) ==
    IF \E t \in DOMAIN p.documents : DocumentChecks(p, good, t) = {}
    THEN NotFull("SELF_DECLARED", "REQUIRED_EVIDENCE_INCOMPLETE")
    ELSE IF IdentityChecks(p, good) = {}
    THEN NotFull("SELF_DECLARED", "IDENTITY_CONSISTENCY_REQUIRED")
    ELSE IF \E t \in DOMAIN p.authority : AuthorityChecks(p, good, t, now) = {}
    THEN NotFull("DOCUMENT_VERIFIED", "CURRENT_LIVE_AUTHORITY_REQUIRED")
    ELSE Decision("FULLY_VERIFIED", "CURRENT_LIVE_AUTHORITY_CONFIRMED",
                  Earliest(ExpiryCandidates(p, good, now)))

decideTierFromRecordedChecks(p, checks, now) ==
    LET latest == LatestChecks(Live(checks, now))
    IN  IF UnresolvedConflict(p, latest)
        THEN NotFull("SELF_DECLARED", "UNRESOLVED_CREDENTIAL_CONFLICT")
        ELSE decideVerificationTier(p, Contributing(p, latest, now), now)

(***************************************************************************)
(* finalize_verification_case                                              *)
(***************************************************************************)
(* DISTINCT ON (check_type, source_id) ... ORDER BY recorded_sequence DESC  *)
DistinctLatest(rows) ==
    {c \in rows : \A d \in rows : (d.type = c.type /\ d.source = c.source) => c.seq >= d.seq}

v_conflict(p, rows) ==
    \E c \in DistinctLatest(rows) :
        /\ c.result \in {"MISMATCH", "CONFLICT"}
        /\ \/ \E t \in DOMAIN p.documents : c.type = t /\ c.source \in p.documents[t]
           \/ c.type = p.identity.type /\ c.source \in p.identity.allowed
           \/ \E t \in DOMAIN p.authority : c.type = t /\ c.source \in p.authority[t]

(* JOIN LATERAL jsonb_array_elements(v_policy -> 'sources')                 *)
Configured(p, rows) == {c \in rows : c.source \in DOMAIN p.sources}

(* ORDER BY checked_at DESC, recorded_sequence DESC LIMIT 1: no row, or one *)
TopRow(S) ==
    {c \in S : \A d \in S :
        c.checkedAt > d.checkedAt \/ (c.checkedAt = d.checkedAt /\ c.seq >= d.seq)}

LegRow(p, rows, t, allowed, at) ==
    TopRow({c \in DistinctLatest(Configured(p, rows)) :
        /\ c.type = t /\ c.source \in allowed
        /\ c.result = "PASS" /\ p.sources[c.source] \notin NonTierKinds
        /\ c.validUntil = NoDate \/ c.validUntil > at})

DocumentRow(p, rows, t, at) == LegRow(p, rows, t, p.documents[t], at)
IdentityRow(p, rows, at) == LegRow(p, rows, p.identity.type, p.identity.allowed, at)

(* checked_at > p_decided_at - v_freshness, without a negative date         *)
AuthorityRow(p, rows, t, at) ==
    TopRow({c \in DistinctLatest(Configured(p, rows)) :
        /\ c.type = t /\ c.source \in p.authority[t]
        /\ c.result = "PASS" /\ p.sources[c.source] = "AUTHORITY"
        /\ at < p.freshness + c.checkedAt
        /\ c.validUntil = NoDate \/ c.validUntil > at})

(* LEAST and min() skip nulls and are null when nothing is left.            *)
LeastDate(S) == IF S \ {NoDate} = {} THEN NoDate ELSE Earliest(S \ {NoDate})

v_document_expiry(p, rows, at) ==
    LeastDate({c.validUntil : c \in UNION {DocumentRow(p, rows, t, at) : t \in DOMAIN p.documents}})
v_identity_expiry(p, rows, at) == LeastDate({c.validUntil : c \in IdentityRow(p, rows, at)})
v_authority_expiry(p, rows, at) ==
    LeastDate({LeastDate({c.checkedAt + p.freshness, c.validUntil}) :
        c \in UNION {AuthorityRow(p, rows, t, at) : t \in DOMAIN p.authority}})

finalizeOutcome(p, checks, at) ==
    LET rows == Live(checks, at)
    IN  IF v_conflict(p, rows)
        THEN NotFull("SELF_DECLARED", "UNRESOLVED_CREDENTIAL_CONFLICT")
        ELSE IF \E t \in DOMAIN p.documents : DocumentRow(p, rows, t, at) = {}
        THEN NotFull("SELF_DECLARED", "REQUIRED_EVIDENCE_INCOMPLETE")
        ELSE IF IdentityRow(p, rows, at) = {}
        THEN NotFull("SELF_DECLARED", "IDENTITY_CONSISTENCY_REQUIRED")
        ELSE IF \E t \in DOMAIN p.authority : AuthorityRow(p, rows, t, at) = {}
        THEN NotFull("DOCUMENT_VERIFIED", "CURRENT_LIVE_AUTHORITY_REQUIRED")
        ELSE Decision("FULLY_VERIFIED", "CURRENT_LIVE_AUTHORITY_CONFIRMED",
                 LeastDate({at + p.freshness, v_document_expiry(p, rows, at),
                            v_identity_expiry(p, rows, at), v_authority_expiry(p, rows, at)}))

(***************************************************************************)
(* What the two promise, for a policy, the checks of a case and a date     *)
(***************************************************************************)
(* The preflight and the database decide the same tier, reason and expiry,  *)
(* so that finalizeCredentialDecision never throws away a decision because  *)
(* the two implementations differ (recompute-provider-tier.ts:254).         *)
Agree(p, checks, at) ==
    decideTierFromRecordedChecks(p, checks, at) = finalizeOutcome(p, checks, at)

(* A full tier is safe to show until it expires: decided again on the same  *)
(* evidence at any date before its expiry it is full again, and the expiry  *)
(* lies in the future (the readers compare only tier_expires_at to now()).  *)
FullUntilExpiry(p, checks, at) ==
    LET known == Live(checks, at)
        d == decideTierFromRecordedChecks(p, known, at)
    IN  d.tier = "FULLY_VERIFIED" =>
            /\ d.expiry > at
            /\ \A later \in at .. (d.expiry - 1) :
                  decideTierFromRecordedChecks(p, known, later).tier = "FULLY_VERIFIED"

(* Only the live answers of the sources a leg allows count: removing every  *)
(* mock, unconfigured, format-only and LLM check changes no decision.       *)
OnlyPolicyEvidence(p, checks, at) ==
    decideTierFromRecordedChecks(p, checks, at) =
    decideTierFromRecordedChecks(p,
        {c \in checks : c.mode = "LIVE" /\ c.source \in RelevantSources(p, c.type)}, at)
==============================================================================
