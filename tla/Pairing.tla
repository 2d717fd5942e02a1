------------------------------ MODULE Pairing -------------------------------
(* Device pairing and sessions of the mobile gateway                         *)
(* (mobile_gateway/pairing.py, service.py), native host profile.             *)
(*                                                                           *)
(* Every handler holds the gateway lock and does its writes in one           *)
(* transaction, so it is one step; what makes it hard is the number of paths *)
(* to a session (pairing, reconnect, the older enrollment grants), owner     *)
(* decisions that come between the messages of a path, restarts of the Core  *)
(* instance, expiry, and scans that read at most Limit records. A lost       *)
(* answer leaves the record behind, as if the device never used it.          *)
EXTENDS Naturals, FiniteSets

CONSTANTS
    Devices,
    Invites,       \* invitations the owner may issue
    Requests,      \* pairing request ids
    Grants,        \* enrollment codes the owner may issue
    None,
    Limit,         \* records a scan returns, and a state may hold (128)
    MaxInstances   \* bound: Core instances

ASSUME PairingAssumption ==
    /\ Limit \in Nat \ {0} /\ MaxInstances \in Nat \ {0}
    /\ Devices \cap Grants = {} /\ None \notin Requests

VARIABLES
    instance,   \* native_host.instance_id
    invite,     \* MOBILE_PAIRING_INVITE records
    request,    \* MOBILE_PAIRING_REQUEST records
    device,     \* MOBILE_DEVICE records: the durable approval
    grant,      \* MOBILE_ENROLLMENT records
    session,    \* MOBILE_SESSION records: one per paired device and per grant
    challenge,  \* MOBILE_RECONNECT_CHALLENGE records
    consent     \* history: what the owner last decided for a device

vars == <<instance, invite, request, device, grant, session, challenge, consent>>

Keys == Devices \cup Grants   \* mobile-session-device-<id>, mobile-session-<token>

Init ==
    /\ instance = 1
    /\ invite = [i \in Invites |-> None]
    /\ request = [r \in Requests |-> None]
    /\ device = [d \in Devices |-> None]
    /\ grant = [g \in Grants |-> None]
    /\ session = [k \in Keys |-> None]
    /\ challenge = [d \in Devices |-> None]
    /\ consent = [d \in Devices |-> [paired |-> FALSE, enrolled |-> FALSE]]

-----------------------------------------------------------------------------
(* Records *)

Stored(records) == {x \in DOMAIN records : records[x] # None}

\* scan(limit=128): some Limit of the records, all of them if there are fewer.
Scan(records) ==
    LET all == Stored(records) IN
    {s \in SUBSET all : Cardinality(s) = IF Cardinality(all) < Limit
                                         THEN Cardinality(all) ELSE Limit}

Room(records) == Cardinality(Stored(records)) < Limit

\* _binding: a record of this Core instance that has not expired.
Current(x) == x.instance = instance /\ ~x.expired

\* The session a token opens (_authenticate): current, not revoked, and for a
\* paired device the durable approval stands.
Live(k) ==
    /\ session[k] # None
    /\ Current(session[k]) /\ ~session[k].revoked
    /\ k \in Devices => device[k] # None /\ ~device[k].revoked

\* The sessions of device d among the scanned ones are revoked.
RevokeSessions(s, d, scanned) ==
    [k \in Keys |-> IF k \in scanned /\ s[k].device = d
                    THEN [s[k] EXCEPT !.revoked = TRUE] ELSE s[k]]

Fresh(d) == [device |-> d, instance |-> instance, expired |-> FALSE, revoked |-> FALSE]

\* Mutant of IssueSession: earlier sessions are left alone.
IssueBeside(k, d) ==
    /\ session[k] = None => Room(session)
    /\ session' = [session EXCEPT ![k] = Fresh(d)]

\* _issue_session: room for a new record, the device's other sessions revoked.
IssueSession(k, d) ==
    /\ session[k] = None => Room(session)
    /\ \E scanned \in Scan(session) :
          session' = [RevokeSessions(session, d, scanned) EXCEPT ![k] = Fresh(d)]

-----------------------------------------------------------------------------
(* The owner, over the private port *)

PairingInvite(i) ==
    /\ invite[i] = None
    /\ Room(invite)
    /\ invite' = [invite EXCEPT ![i] = [instance |-> instance, expired |-> FALSE, used |-> FALSE]]
    /\ UNCHANGED <<instance, request, device, grant, session, challenge, consent>>

PairingApprove(r) ==
    LET d == request[r].device IN
    /\ request[r] # None
    /\ Current(request[r]) /\ request[r].phase = "PENDING"
    /\ device[d] = None => Room(device)
    /\ device' = [device EXCEPT ![d] = [revoked |-> FALSE, approval |-> r]]
    /\ request' = [request EXCEPT ![r].phase = "APPROVED"]
    /\ consent' = [consent EXCEPT ![d].paired = TRUE]
    /\ UNCHANGED <<instance, invite, grant, session, challenge>>

\* Mutant of ConsumeGrants: revocation leaves enrollment codes outstanding.
ConsumeNoGrants(d, scanned) == grant

\* Every outstanding enrollment code of the device is used up.
ConsumeGrants(d, scanned) ==
    [g \in Grants |-> IF g \in scanned /\ grant[g].device = d
                      THEN [grant[g] EXCEPT !.used = TRUE] ELSE grant[g]]

PairingRevoke(d) ==
    /\ device[d] # None
    /\ device' = [device EXCEPT ![d].revoked = TRUE]
    /\ \E scanned \in Scan(session) : session' = RevokeSessions(session, d, scanned)
    /\ \E scanned \in Scan(grant) : grant' = ConsumeGrants(d, scanned)
    /\ consent' = [consent EXCEPT ![d] = [paired |-> FALSE, enrolled |-> FALSE]]
    /\ UNCHANGED <<instance, invite, request, challenge>>

IssueEnrollment(g, d) ==
    /\ grant[g] = None
    /\ Room(grant)
    /\ grant' = [grant EXCEPT ![g] = [device |-> d, instance |-> instance,
                                      expired |-> FALSE, used |-> FALSE]]
    /\ consent' = [consent EXCEPT ![d].enrolled = TRUE]
    /\ UNCHANGED <<instance, invite, request, device, session, challenge>>

-----------------------------------------------------------------------------
(* The device, over HTTP; every message is signed with the device key *)

PairingBegin(i, r, d) ==
    /\ invite[i] # None /\ request[r] = None
    /\ Current(invite[i]) /\ ~invite[i].used
    /\ invite' = [invite EXCEPT ![i].used = TRUE]
    /\ request' = [request EXCEPT ![r] = [device |-> d, phase |-> "PENDING",
                                          instance |-> instance, expired |-> FALSE]]
    /\ UNCHANGED <<instance, device, grant, session, challenge, consent>>

\* The durable approval is this request's, and stands.
Approved(r, d) ==
    /\ request[r].phase = "APPROVED"
    /\ device[d] # None /\ ~device[d].revoked
    /\ device[d].approval = r

PairingComplete(r) ==
    LET d == request[r].device IN
    /\ request[r] # None
    /\ Current(request[r]) /\ Approved(r, d)
    /\ request' = [request EXCEPT ![r].phase = "COMPLETED"]
    /\ IssueSession(d, d)
    /\ UNCHANGED <<instance, invite, device, grant, challenge, consent>>

SessionChallenge(d) ==
    /\ device[d] # None /\ ~device[d].revoked
    /\ challenge' = [challenge EXCEPT ![d] = [approval |-> device[d].approval, used |-> FALSE,
                                              instance |-> instance, expired |-> FALSE]]
    /\ UNCHANGED <<instance, invite, request, device, grant, session, consent>>

\* Mutant of Answers: the challenge is not tied to the approval it was made for.
AnswersAny(d) == challenge[d] # None /\ Current(challenge[d]) /\ ~challenge[d].used

\* The stored challenge is unused, current and of the present approval.
Answers(d) ==
    /\ challenge[d] # None
    /\ Current(challenge[d]) /\ ~challenge[d].used
    /\ challenge[d].approval = device[d].approval

SessionReconnect(d) ==
    /\ device[d] # None /\ ~device[d].revoked
    /\ Answers(d)
    /\ challenge' = [challenge EXCEPT ![d].used = TRUE]
    /\ IssueSession(d, d)
    /\ UNCHANGED <<instance, invite, request, device, grant, consent>>

\* Redeeming an enrollment code: a session without a durable approval.
Redeem(g) ==
    /\ grant[g] # None
    /\ Current(grant[g]) /\ ~grant[g].used
    /\ grant' = [grant EXCEPT ![g].used = TRUE]
    /\ IssueSession(g, grant[g].device)
    /\ UNCHANGED <<instance, invite, request, device, challenge, consent>>

\* The device gives up its own session.
Revoke(k) ==
    /\ Live(k)
    /\ session' = [session EXCEPT ![k].revoked = TRUE]
    /\ UNCHANGED <<instance, invite, request, device, grant, challenge, consent>>

-----------------------------------------------------------------------------
(* Time and restarts *)

Expire ==
    /\ \/ \E i \in Stored(invite) : /\ invite' = [invite EXCEPT ![i].expired = TRUE]
                                    /\ UNCHANGED <<request, grant, session, challenge>>
       \/ \E r \in Stored(request) : /\ request' = [request EXCEPT ![r].expired = TRUE]
                                     /\ UNCHANGED <<invite, grant, session, challenge>>
       \/ \E g \in Stored(grant) : /\ grant' = [grant EXCEPT ![g].expired = TRUE]
                                   /\ UNCHANGED <<invite, request, session, challenge>>
       \/ \E k \in Stored(session) : /\ session' = [session EXCEPT ![k].expired = TRUE]
                                     /\ UNCHANGED <<invite, request, grant, challenge>>
       \/ \E d \in Stored(challenge) : /\ challenge' = [challenge EXCEPT ![d].expired = TRUE]
                                       /\ UNCHANGED <<invite, request, grant, session>>
    /\ UNCHANGED <<instance, device, consent>>

Restart ==
    /\ instance < MaxInstances
    /\ instance' = instance + 1
    /\ UNCHANGED <<invite, request, device, grant, session, challenge, consent>>

Next ==
    \/ \E i \in Invites : PairingInvite(i)
    \/ \E i \in Invites, r \in Requests, d \in Devices : PairingBegin(i, r, d)
    \/ \E r \in Requests : PairingApprove(r) \/ PairingComplete(r)
    \/ \E d \in Devices : PairingRevoke(d) \/ SessionChallenge(d) \/ SessionReconnect(d)
    \/ \E g \in Grants : Redeem(g) \/ \E d \in Devices : IssueEnrollment(g, d)
    \/ \E k \in Keys : Revoke(k)
    \/ Expire \/ Restart

Spec == Init /\ [][Next]_vars

-----------------------------------------------------------------------------
TypeOK ==
    /\ instance \in 1..MaxInstances
    /\ \A r \in Stored(request) : request[r].phase \in {"PENDING", "APPROVED", "COMPLETED"}
    /\ \A d \in Stored(device) : device[d].approval \in Stored(request)
    /\ \A k \in Stored(session) : session[k].device \in Devices
    /\ Cardinality(Stored(session)) <= Limit

\* Whatever messages, codes and challenges of a device are still around, it has
\* a live session only while the owner's last decision on that path allows it:
\* no path survives a revocation (pairing.py:129-142, service.py:186-213).
LiveNeedsConsent ==
    \A k \in Keys : Live(k) =>
        IF k \in Devices THEN consent[k].paired ELSE consent[session[k].device].enrolled

\* A device never has two live sessions, however many paths it used
\* (service.py:200).
OneLiveSession ==
    \A j, k \in Keys : Live(j) /\ Live(k) /\ session[j].device = session[k].device => j = k

\* A new approval of a device starts over: what was made under the previous one
\* opens no session (pairing.py:207, 215-217).
ApprovalStartsOver ==
    [][\A d \in Devices :
         /\ device[d] # None
         /\ session[d] # session'[d] /\ session'[d] = Fresh(d)
         => \/ challenge[d] # challenge'[d] /\ challenge[d].approval = device[d].approval
            \/ \E r \in Requests : request[r] # request'[r] /\ device[d].approval = r]_vars
=============================================================================
