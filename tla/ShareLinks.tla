----------------------------- MODULE ShareLinks -----------------------------
(***************************************************************************)
(* The share links of one report, ShareService.  createOrGetLink looks for *)
(* a live link and creates one in two statements; the owner's requests run *)
(* side by side with each other and with a revocation.                     *)
(***************************************************************************)
EXTENDS Integers, Sequences, FiniteSets

CONSTANTS
    Sharers,        \* concurrent requests of the owner
    MaxLinks        \* bound on the links that are ever created

ASSUME ShareAssumption == IsFiniteSet(Sharers) /\ MaxLinks \in Nat

VARIABLES
    share,          \* the report_shares rows: 1.. in the order of creation
    sharer          \* the requests: what they are at and the link they answered with

shareVars == <<share, sharer>>

Links == DOMAIN share
Live == {l \in Links : share[l] = "live"}
NoLink == 0

SharesTypeOK ==
    /\ share \in Seq({"live", "revoked"}) /\ Len(share) <= MaxLinks
    /\ sharer \in [Sharers -> [pc : {"find", "create", "over"}, link : 0..MaxLinks]]

SharesInit ==
    /\ share = <<>>
    /\ sharer = [s \in Sharers |-> [pc |-> "find", link |-> NoLink]]

\* The newest of the live links.
LiveLink == IF Live = {} THEN NoLink ELSE CHOOSE l \in Live : \A k \in Live : k <= l

\* createOrGetLink: the live link, or none yet.
FindLink(s) ==
    /\ sharer[s].pc = "find"
    /\ sharer' = [sharer EXCEPT ![s] = [pc |-> IF Live = {} THEN "create" ELSE "over", link |-> LiveLink]]
    /\ UNCHANGED share

CreateLink(s) ==
    /\ sharer[s].pc = "create"
    /\ Len(share) < MaxLinks
    /\ share' = Append(share, "live")
    /\ sharer' = [sharer EXCEPT ![s] = [pc |-> "over", link |-> Len(share) + 1]]

\* The owner asks again, or looks at the share card first (getLink).
ShareAgain(s) ==
    /\ sharer[s].pc = "over"
    /\ \E seen \in {sharer[s].link, LiveLink} : sharer' = [sharer EXCEPT ![s] = [pc |-> "find", link |-> seen]]
    /\ UNCHANGED share

\* Mutant: only the link that the share card shows is revoked.
RevokeNewest ==
    /\ Live # {}
    /\ share' = [share EXCEPT ![LiveLink] = "revoked"]
    /\ UNCHANGED sharer

\* revokeLinks: every live row in one statement.
RevokeLinks ==
    /\ Live # {}
    /\ share' = [l \in Links |-> "revoked"]
    /\ UNCHANGED sharer

SharesNext == RevokeLinks \/ \E s \in Sharers : FindLink(s) \/ CreateLink(s) \/ ShareAgain(s)

SharesSpec == SharesInit /\ [][SharesNext]_shareVars

(***************************************************************************)
(* Properties                                                              *)
(***************************************************************************)
\* The comment on createOrGetLink (share.service.ts:42-44): re-sharing returns the
\* existing live link rather than minting a second token, so that copying the link
\* twice cannot produce two capabilities.  No unique index stands behind it.
OneLink == Cardinality(Live) <= 1

\* A revocation leaves no link behind: none that is older than a revoked one is
\* live, though racing requests may have made several that the owner never saw.
RevokedTogether ==
    \A l, k \in Links : k < l /\ share[l] = "revoked" => share[k] = "revoked"
=============================================================================
