---------------------------- MODULE GatewayProofs ---------------------------
(* Safety of the gates to the outside. The mobile gateway: its pairing and   *)
(* its sessions, for any devices, codes and limit, and the one use of a      *)
(* signed packet, for every window, limit and set of packets. The permit     *)
(* gate of the live provider, for every number of processes, files, commits  *)
(* and test runs, and every limit.                                           *)
EXTENDS Pairing, FiniteSetTheorems, TLAPS

-----------------------------------------------------------------------------
(* Pairing and sessions *)

RequestType   == [device : Devices, phase : {"PENDING", "APPROVED", "COMPLETED"},
                  instance : Nat, expired : BOOLEAN]
DeviceType    == [revoked : BOOLEAN, approval : Requests]
GrantType     == [device : Devices, instance : Nat, expired : BOOLEAN, used : BOOLEAN]
SessionType   == [device : Devices, instance : Nat, expired : BOOLEAN, revoked : BOOLEAN]
ChallengeType == [approval : Requests, used : BOOLEAN, instance : Nat, expired : BOOLEAN]
InviteType    == [instance : Nat, expired : BOOLEAN, used : BOOLEAN]

\* What the records of the gateway hold.
RecordsOK ==
    /\ instance \in Nat
    /\ invite \in [Invites -> InviteType \cup {None}]
    /\ request \in [Requests -> RequestType \cup {None}]
    /\ device \in [Devices -> DeviceType \cup {None}]
    /\ grant \in [Grants -> GrantType \cup {None}]
    /\ session \in [Keys -> SessionType \cup {None}]
    /\ challenge \in [Devices -> ChallengeType \cup {None}]
    /\ consent \in [Devices -> [paired : BOOLEAN, enrolled : BOOLEAN]]

\* No kind of record outgrows what one scan returns.
Bounded(records) == IsFiniteSet(Stored(records)) /\ Cardinality(Stored(records)) <= Limit

ScansComplete == Bounded(session) /\ Bounded(grant)

\* What stands, the owner has allowed: an approval, an enrollment code, a session under one.
Open(k) == session[k] # None /\ ~session[k].revoked

Allowed ==
    /\ \A d \in Devices : device[d] # None /\ ~device[d].revoked => consent[d].paired
    /\ \A g \in Grants : grant[g] # None /\ ~grant[g].used => consent[grant[g].device].enrolled
    /\ \A g \in Grants : Open(g) => consent[session[g].device].enrolled

\* A paired device's session is its own, and a device has one session that is not revoked.
OneOpen ==
    /\ \A d \in Devices : session[d] # None => session[d].device = d
    /\ \A j, k \in Keys : Open(j) /\ Open(k) /\ session[j].device = session[k].device => j = k

PairingInv == RecordsOK /\ ScansComplete /\ Allowed /\ OneOpen

\* A scan of records that fit into it returns all of them.
LEMMA ScanAll ==
    ASSUME NEW records, Bounded(records), NEW s \in Scan(records)
    PROVE  s = Stored(records)
<1> DEFINE all == Stored(records)
<1>1. IsFiniteSet(all) /\ Cardinality(all) \in Nat /\ Cardinality(all) <= Limit /\ Limit \in Nat
    BY FS_CardinalityType, PairingAssumption DEF Bounded
<1>2. s \in SUBSET all /\ Cardinality(s) = Cardinality(all)
    BY <1>1 DEF Scan
<1>. QED
    BY <1>1, <1>2, FS_Subset

\* Records stay within the limit when none is added, or one while there is room.
LEMMA StaysBounded ==
    ASSUME NEW old, NEW new, NEW x, Bounded(old),
           \/ Stored(new) \subseteq Stored(old)
           \/ Room(old) /\ Stored(new) \subseteq Stored(old) \cup {x}
    PROVE  Bounded(new)
<1>1. IsFiniteSet(Stored(old)) /\ Cardinality(Stored(old)) \in Nat /\ Limit \in Nat
    BY FS_CardinalityType, PairingAssumption DEF Bounded
<1>2. CASE Stored(new) \subseteq Stored(old)
    <2>1. /\ IsFiniteSet(Stored(new)) /\ Cardinality(Stored(new)) <= Cardinality(Stored(old))
          /\ Cardinality(Stored(new)) \in Nat
        BY <1>1, <1>2, FS_Subset, FS_CardinalityType
    <2>. QED
        BY <1>1, <2>1 DEF Bounded
<1>3. CASE Room(old) /\ Stored(new) \subseteq Stored(old) \cup {x}
    <2> DEFINE T == Stored(old) \cup {x}
    <2>0. /\ IsFiniteSet(T)
          /\ \/ Cardinality(T) = Cardinality(Stored(old))
             \/ Cardinality(T) = Cardinality(Stored(old)) + 1
        BY <1>1, FS_AddElement
    <2>1. IsFiniteSet(T) /\ Cardinality(T) \in Nat /\ Cardinality(T) <= Cardinality(Stored(old)) + 1
        BY <1>1, <2>0
    <2>2. /\ IsFiniteSet(Stored(new)) /\ Cardinality(Stored(new)) <= Cardinality(T)
          /\ Cardinality(Stored(new)) \in Nat
        BY <1>3, <2>1, FS_Subset, FS_CardinalityType
    <2>. QED
        BY <1>1, <1>3, <2>1, <2>2 DEF Bounded, Room
<1>. QED
    BY <1>2, <1>3

\* A revoked session is the same session, revoked.
LEMMA RevokedSession ==
    ASSUME NEW s \in SessionType
    PROVE  LET r == [s EXCEPT !.revoked = TRUE]
           IN  r \in SessionType /\ r.revoked /\ r.device = s.device
BY DEF SessionType

\* Session j after a step that revokes the sessions of d.
Closed(j, d) ==
    IF session[j] # None /\ session[j].device = d
    THEN [session[j] EXCEPT !.revoked = TRUE] ELSE session[j]

\* A complete scan revokes every session of the device.
LEMMA RevokesAll ==
    ASSUME RecordsOK, ScansComplete, NEW d, NEW scanned \in Scan(session), NEW j \in Keys
    PROVE  RevokeSessions(session, d, scanned)[j] = Closed(j, d)
<1>1. scanned = Stored(session) /\ DOMAIN session = Keys
    BY ScanAll DEF ScansComplete, RecordsOK
<1>. QED
    BY <1>1 DEF RevokeSessions, Closed, Stored

\* What _issue_session leaves: the new session, and the device's others revoked.
LEMMA IssueStep ==
    ASSUME RecordsOK, ScansComplete, NEW k \in Keys, NEW d \in Devices, IssueSession(k, d)
    PROVE  /\ session' \in [Keys -> SessionType \cup {None}]
           /\ session'[k] = Fresh(d)
           /\ \A j \in Keys \ {k} : session'[j] = Closed(j, d)
           /\ Bounded(session')
<1>0. session \in [Keys -> SessionType \cup {None}] /\ instance \in Nat
    BY DEF RecordsOK
<1>1. PICK scanned \in Scan(session) :
          session' = [RevokeSessions(session, d, scanned) EXCEPT ![k] = Fresh(d)]
    BY DEF IssueSession
<1> DEFINE rs == RevokeSessions(session, d, scanned)
<1>2. rs = [j \in Keys |-> rs[j]]
    BY DEF RevokeSessions
<1>3. \A j \in Keys : rs[j] = Closed(j, d)
    BY RevokesAll
<1>4. \A j \in Keys : Closed(j, d) \in SessionType \cup {None}
    BY <1>0, RevokedSession DEF Closed
<1>5. Fresh(d) \in SessionType
    BY <1>0 DEF Fresh, SessionType
<1> HIDE DEF rs
<1>6. /\ session' \in [Keys -> SessionType \cup {None}]
      /\ session'[k] = Fresh(d)
      /\ \A j \in Keys \ {k} : session'[j] = Closed(j, d)
    BY <1>1, <1>2, <1>3, <1>4, <1>5 DEF rs
<1>7. Stored(session') \subseteq Stored(session) \cup {k}
    BY <1>0, <1>6 DEF Stored, Closed
<1>8. session[k] # None => Stored(session') \subseteq Stored(session)
    BY <1>0, <1>7 DEF Stored
<1>9. session[k] = None => Room(session)
    BY DEF IssueSession
<1>10. Bounded(session')
    BY <1>7, <1>8, <1>9, StaysBounded DEF ScansComplete
<1>. QED
    BY <1>6, <1>10

\* Nothing is stored or allowed initially (the first start of the gateway).
LEMMA PairingInit == Init => PairingInv
<1> SUFFICES ASSUME Init PROVE PairingInv
    OBVIOUS
<1>1. RecordsOK
    BY DEF Init, RecordsOK
<1>2. Stored(session) = {} /\ Stored(grant) = {}
    BY DEF Init, Stored
<1>3. ScansComplete
    BY <1>2, FS_EmptySet, PairingAssumption DEF ScansComplete, Bounded
<1>4. Allowed /\ OneOpen
    BY DEF Init, Allowed, OneOpen, Open, Keys
<1>. QED
    BY <1>1, <1>3, <1>4 DEF PairingInv

\* The owner's invitation, the device's challenge and a restart touch no session or grant.
LEMMA QuietStep ==
    ASSUME PairingInv, UNCHANGED <<device, grant, session, consent>>
    PROVE  ScansComplete' /\ Allowed' /\ OneOpen'
BY DEF PairingInv, ScansComplete, Bounded, Stored, Allowed, OneOpen, Open

LEMMA InviteKeeps ==
    ASSUME PairingInv, NEW i \in Invites, PairingInvite(i)
    PROVE  PairingInv'
<1>1. [instance |-> instance, expired |-> FALSE, used |-> FALSE] \in InviteType
    BY DEF PairingInv, RecordsOK, InviteType
<1>2. RecordsOK'
    BY <1>1 DEF PairingInvite, PairingInv, RecordsOK
<1>. QED
    BY <1>2, QuietStep DEF PairingInvite, PairingInv

LEMMA ApproveKeeps ==
    ASSUME PairingInv, NEW r \in Requests, PairingApprove(r)
    PROVE  PairingInv'
<1> DEFINE d == request[r].device
<1>0. /\ RecordsOK /\ ScansComplete /\ Allowed /\ OneOpen
      /\ request[r] \in RequestType /\ d \in Devices
    BY DEF PairingInv, RecordsOK, PairingApprove, RequestType
<1>1. [request[r] EXCEPT !.phase = "APPROVED"] \in RequestType
    BY <1>0 DEF RequestType
<1>2. [revoked |-> FALSE, approval |-> r] \in DeviceType
    BY DEF DeviceType
<1>3. /\ request' = [request EXCEPT ![r] = [request[r] EXCEPT !.phase = "APPROVED"]]
      /\ device' = [device EXCEPT ![d] = [revoked |-> FALSE, approval |-> r]]
      /\ consent' = [consent EXCEPT ![d] = [consent[d] EXCEPT !.paired = TRUE]]
      /\ UNCHANGED <<instance, invite, grant, session, challenge>>
    BY <1>0 DEF PairingApprove, RecordsOK
<1>4. [consent[d] EXCEPT !.paired = TRUE] \in [paired : {TRUE}, enrolled : {consent[d].enrolled}]
    BY <1>0 DEF RecordsOK
<1> HIDE DEF d
<1>5. RecordsOK'
    <2>1. consent' \in [Devices -> [paired : BOOLEAN, enrolled : BOOLEAN]]
        BY <1>0, <1>3, <1>4 DEF RecordsOK
    <2>. QED
        BY <1>0, <1>1, <1>2, <1>3, <2>1 DEF RecordsOK
<1>6. \A e \in Devices : /\ consent'[e].enrolled = consent[e].enrolled
                         /\ consent'[e].paired = (e = d \/ consent[e].paired)
    BY <1>0, <1>3, <1>4 DEF RecordsOK
<1>7. Allowed'
    <2>1. \A e \in Devices : device'[e] # None /\ ~device'[e].revoked => consent'[e].paired
        BY <1>0, <1>3, <1>6 DEF RecordsOK, Allowed
    <2>2. \A g \in Grants : grant[g] # None => grant[g].device \in Devices
        BY <1>0 DEF RecordsOK, GrantType
    <2>3. \A g \in Grants : session[g] # None => session[g].device \in Devices
        BY <1>0 DEF RecordsOK, SessionType, Keys
    <2>. QED
        BY <1>0, <1>3, <1>6, <2>1, <2>2, <2>3 DEF Allowed, Open
<1>8. ScansComplete' /\ OneOpen'
    BY <1>0, <1>3 DEF ScansComplete, Bounded, Stored, OneOpen, Open
<1>. QED
    BY <1>5, <1>7, <1>8 DEF PairingInv

\* Session j of another path, after a step that revokes the sessions of d.
LEMMA ClosedSession ==
    ASSUME RecordsOK, NEW j \in Keys, NEW d
    PROVE  /\ Closed(j, d) \in SessionType \cup {None}
           /\ (Closed(j, d) # None) => /\ session[j] # None
                                       /\ Closed(j, d).device = session[j].device
                                       /\ ~Closed(j, d).revoked => /\ ~session[j].revoked
                                                                   /\ session[j].device # d
                                                                   /\ Closed(j, d) = session[j]
<1>1. session[j] \in SessionType \cup {None}
    BY DEF RecordsOK
<1>2. CASE session[j] # None /\ session[j].device = d
    BY <1>1, <1>2, RevokedSession DEF Closed
<1>3. CASE ~(session[j] # None /\ session[j].device = d)
    BY <1>1, <1>3 DEF Closed
<1>. QED
    BY <1>2, <1>3

\* Used up, a grant is the same grant.
LEMMA UsedGrant ==
    ASSUME NEW x \in GrantType
    PROVE  LET u == [x EXCEPT !.used = TRUE]
           IN  u \in GrantType /\ u.used /\ u.device = x.device
BY DEF GrantType

LEMMA RevokeDeviceKeeps ==
    ASSUME PairingInv, NEW d \in Devices, PairingRevoke(d)
    PROVE  PairingInv'
<1> DEFINE Spent(g) == IF grant[g] # None /\ grant[g].device = d
                       THEN [grant[g] EXCEPT !.used = TRUE] ELSE grant[g]
<1>0. RecordsOK /\ ScansComplete /\ Allowed /\ OneOpen
    BY DEF PairingInv
<1>1. session' \in [Keys -> SessionType \cup {None}] /\ \A j \in Keys : session'[j] = Closed(j, d)
    <2>1. PICK scanned \in Scan(session) : session' = RevokeSessions(session, d, scanned)
        BY DEF PairingRevoke
    <2>2. \A j \in Keys : session'[j] = Closed(j, d)
        BY <1>0, <2>1, RevokesAll
    <2>3. session' = [j \in Keys |-> session'[j]]
        BY <2>1 DEF RevokeSessions
    <2>. QED
        BY <1>0, <2>2, <2>3, ClosedSession
<1>2. grant' = [g \in Grants |-> Spent(g)]
    <2>1. PICK scanned \in Scan(grant) : grant' = ConsumeGrants(d, scanned)
        BY DEF PairingRevoke
    <2>2. scanned = Stored(grant) /\ DOMAIN grant = Grants
        BY <1>0, ScanAll DEF ScansComplete, RecordsOK
    <2>. QED
        BY <2>1, <2>2 DEF ConsumeGrants, Stored
<1>3. \A g \in Grants : /\ Spent(g) \in GrantType \cup {None}
                        /\ Spent(g) # None => grant[g] # None /\ Spent(g).device = grant[g].device
                        /\ Spent(g) # None /\ ~Spent(g).used => ~grant[g].used /\ grant[g].device # d
    <2>1. \A g \in Grants : grant[g] \in GrantType \cup {None}
        BY <1>0 DEF RecordsOK
    <2>. QED
        BY <2>1, UsedGrant
<1> HIDE DEF Spent
<1>4. /\ device' = [device EXCEPT ![d] = [device[d] EXCEPT !.revoked = TRUE]]
      /\ consent' = [consent EXCEPT ![d] = [paired |-> FALSE, enrolled |-> FALSE]]
      /\ UNCHANGED <<instance, invite, request, challenge>>
    BY <1>0 DEF PairingRevoke, RecordsOK
<1>5. [device[d] EXCEPT !.revoked = TRUE] \in DeviceType /\ [device[d] EXCEPT !.revoked = TRUE].revoked
    BY <1>0 DEF RecordsOK, DeviceType, PairingRevoke
<1>6. RecordsOK'
    BY <1>0, <1>1, <1>2, <1>3, <1>4, <1>5 DEF RecordsOK
<1>7. \A j \in Keys : session'[j] # None => session[j] # None
    BY <1>0, <1>1, ClosedSession
<1>8. \A g \in Grants : grant'[g] # None => grant[g] # None
    BY <1>2, <1>3
<1>9. ScansComplete'
    <2>1. Stored(session') \subseteq Stored(session)
        BY <1>0, <1>1, <1>7 DEF Stored, RecordsOK
    <2>2. Stored(grant') \subseteq Stored(grant)
        BY <1>0, <1>2, <1>8 DEF Stored, RecordsOK
    <2>. QED
        BY <1>0, <2>1, <2>2, StaysBounded DEF ScansComplete
<1>10. Allowed'
    <2>1. \A e \in Devices : device'[e] # None /\ ~device'[e].revoked => consent'[e].paired
        BY <1>0, <1>4, <1>5 DEF RecordsOK, Allowed
    <2>2. \A g \in Grants : grant'[g] # None /\ ~grant'[g].used => consent'[grant'[g].device].enrolled
        <3>1. \A g \in Grants : grant[g] # None => grant[g].device \in Devices
            BY <1>0 DEF RecordsOK, GrantType
        <3>. QED
            BY <1>0, <1>2, <1>3, <1>4, <3>1 DEF RecordsOK, Allowed
    <2>3. ASSUME NEW g \in Grants, Open(g)' PROVE consent'[session'[g].device].enrolled
        <3>1. g \in Keys /\ session'[g] = Closed(g, d)
            BY <1>1 DEF Keys
        <3>2. Open(g) /\ session[g].device # d /\ session'[g].device = session[g].device
            BY <1>0, <2>3, <3>1, ClosedSession DEF Open
        <3>3. session[g].device \in Devices
            BY <1>0, <3>1, <3>2 DEF RecordsOK, SessionType, Open
        <3>. QED
            BY <1>0, <1>4, <3>2, <3>3 DEF RecordsOK, Allowed
    <2>. QED
        BY <2>1, <2>2, <2>3 DEF Allowed
<1>11. OneOpen'
    <2>1. \A e \in Devices : session'[e] # None => session'[e].device = e
        BY <1>0, <1>1, ClosedSession DEF OneOpen, Keys
    <2>2. \A j \in Keys : Open(j)' => Open(j) /\ session'[j].device = session[j].device
        BY <1>0, <1>1, ClosedSession DEF Open
    <2>. QED
        BY <1>0, <2>1, <2>2 DEF OneOpen
<1>. QED
    BY <1>6, <1>9, <1>10, <1>11 DEF PairingInv

LEMMA EnrollmentKeeps ==
    ASSUME PairingInv, NEW g \in Grants, NEW d \in Devices, IssueEnrollment(g, d)
    PROVE  PairingInv'
<1> DEFINE code == [device |-> d, instance |-> instance, expired |-> FALSE, used |-> FALSE]
<1>0. RecordsOK /\ ScansComplete /\ Allowed /\ OneOpen
    BY DEF PairingInv
<1>1. code \in GrantType /\ code.device = d
    BY <1>0 DEF RecordsOK, GrantType
<1>2. /\ grant' = [grant EXCEPT ![g] = code]
      /\ consent' = [consent EXCEPT ![d] = [consent[d] EXCEPT !.enrolled = TRUE]]
      /\ UNCHANGED <<instance, invite, request, device, session, challenge>>
    BY <1>0 DEF IssueEnrollment, RecordsOK
<1>3. [consent[d] EXCEPT !.enrolled = TRUE] \in [paired : {consent[d].paired}, enrolled : {TRUE}]
    BY <1>0 DEF RecordsOK
<1> HIDE DEF code
<1>4. RecordsOK'
    <2>1. consent' \in [Devices -> [paired : BOOLEAN, enrolled : BOOLEAN]]
        BY <1>0, <1>2, <1>3 DEF RecordsOK
    <2>. QED
        BY <1>0, <1>1, <1>2, <2>1 DEF RecordsOK
<1>5. \A e \in Devices : /\ consent'[e].paired = consent[e].paired
                         /\ consent'[e].enrolled = (e = d \/ consent[e].enrolled)
    BY <1>0, <1>2, <1>3 DEF RecordsOK
<1>6. ScansComplete'
    <2>1. Stored(grant') \subseteq Stored(grant) \cup {g} /\ Room(grant)
        BY <1>0, <1>2 DEF RecordsOK, Stored, IssueEnrollment
    <2>2. Bounded(grant')
        BY <1>0, <2>1, StaysBounded DEF ScansComplete
    <2>. QED
        BY <1>0, <1>2, <2>2 DEF ScansComplete, Bounded, Stored
<1>7. Allowed'
    <2>1. \A h \in Grants : grant[h] # None => grant[h].device \in Devices
        BY <1>0 DEF RecordsOK, GrantType
    <2>2. \A h \in Grants : session[h] # None => session[h].device \in Devices
        BY <1>0 DEF RecordsOK, SessionType, Keys
    <2>3. \A h \in Grants : grant'[h] # None /\ ~grant'[h].used => consent'[grant'[h].device].enrolled
        BY <1>0, <1>1, <1>2, <1>5, <2>1 DEF RecordsOK, Allowed
    <2>. QED
        BY <1>0, <1>2, <1>5, <2>2, <2>3 DEF Allowed, Open
<1>8. OneOpen'
    BY <1>0, <1>2 DEF OneOpen, Open
<1>. QED
    BY <1>4, <1>6, <1>7, <1>8 DEF PairingInv

LEMMA BeginKeeps ==
    ASSUME PairingInv, NEW i \in Invites, NEW r \in Requests, NEW d \in Devices, PairingBegin(i, r, d)
    PROVE  PairingInv'
<1> DEFINE asked == [device |-> d, phase |-> "PENDING", instance |-> instance, expired |-> FALSE]
<1>0. RecordsOK /\ invite[i] \in InviteType
    BY DEF PairingInv, RecordsOK, PairingBegin
<1>1. asked \in RequestType
    BY <1>0 DEF RecordsOK, RequestType
<1>2. [invite[i] EXCEPT !.used = TRUE] \in InviteType
    BY <1>0 DEF InviteType
<1>3. /\ request' = [request EXCEPT ![r] = asked]
      /\ invite' = [invite EXCEPT ![i] = [invite[i] EXCEPT !.used = TRUE]]
      /\ UNCHANGED <<instance, device, grant, session, challenge, consent>>
    BY <1>0 DEF PairingBegin, RecordsOK
<1> HIDE DEF asked
<1>4. RecordsOK'
    BY <1>0, <1>1, <1>2, <1>3 DEF RecordsOK
<1>. QED
    BY <1>3, <1>4, QuietStep DEF PairingInv

\* A session issued for d under key k keeps sessions bounded, owned and single, whatever
\* else the step writes; for an enrollment code's session the owner must have enrolled d.
LEMMA IssueKeeps ==
    ASSUME PairingInv, NEW k \in Keys, NEW d \in Devices, IssueSession(k, d),
           k \in Devices => k = d,
           k \in Grants => consent[d].enrolled,
           UNCHANGED consent
    PROVE  /\ session' \in [Keys -> SessionType \cup {None}]
           /\ Bounded(session')
           /\ \A g \in Grants : Open(g)' => consent'[session'[g].device].enrolled
           /\ OneOpen'
<1>0. RecordsOK /\ ScansComplete /\ Allowed /\ OneOpen
    BY DEF PairingInv
<1>1. /\ session' \in [Keys -> SessionType \cup {None}]
      /\ session'[k] = Fresh(d)
      /\ \A j \in Keys \ {k} : session'[j] = Closed(j, d)
      /\ Bounded(session')
    BY <1>0, IssueStep
<1>2. session'[k].device = d
    BY <1>1 DEF Fresh
<1>3. \A j \in Keys \ {k} : Open(j)' => /\ Open(j) /\ session[j].device # d
                                        /\ session'[j].device = session[j].device
    BY <1>0, <1>1, ClosedSession DEF Open
<1>4. \A g \in Grants : Open(g)' => consent'[session'[g].device].enrolled
    BY <1>0, <1>2, <1>3 DEF Allowed, Keys
<1>5. \A e \in Devices : session'[e] # None => session'[e].device = e
    BY <1>0, <1>1, <1>2, ClosedSession DEF OneOpen, Keys
<1>6. \A i, j \in Keys : Open(i)' /\ Open(j)' /\ session'[i].device = session'[j].device => i = j
    BY <1>0, <1>2, <1>3 DEF OneOpen
<1>. QED
    BY <1>1, <1>4, <1>5, <1>6 DEF OneOpen

LEMMA CompleteKeeps ==
    ASSUME PairingInv, NEW r \in Requests, PairingComplete(r)
    PROVE  PairingInv'
<1> DEFINE d == request[r].device
<1>0. /\ RecordsOK /\ ScansComplete /\ Allowed /\ OneOpen
      /\ request[r] \in RequestType /\ d \in Devices
    BY DEF PairingInv, RecordsOK, PairingComplete, RequestType
<1>1. [request[r] EXCEPT !.phase = "COMPLETED"] \in RequestType
    BY <1>0 DEF RequestType
<1>2. /\ request' = [request EXCEPT ![r] = [request[r] EXCEPT !.phase = "COMPLETED"]]
      /\ IssueSession(d, d)
      /\ UNCHANGED <<instance, invite, device, grant, challenge, consent>>
    BY <1>0 DEF PairingComplete, RecordsOK
<1> HIDE DEF d
<1>3. d \in Keys /\ d \notin Grants
    BY <1>0, PairingAssumption DEF Keys
<1>4. /\ session' \in [Keys -> SessionType \cup {None}] /\ Bounded(session') /\ OneOpen'
      /\ \A g \in Grants : Open(g)' => consent'[session'[g].device].enrolled
    BY <1>0, <1>2, <1>3, IssueKeeps
<1>5. RecordsOK'
    BY <1>0, <1>1, <1>2, <1>4 DEF RecordsOK
<1>6. ScansComplete'
    BY <1>0, <1>2, <1>4 DEF ScansComplete, Bounded, Stored
<1>7. Allowed'
    BY <1>0, <1>2, <1>4 DEF Allowed
<1>. QED
    BY <1>4, <1>5, <1>6, <1>7 DEF PairingInv

LEMMA ChallengeKeeps ==
    ASSUME PairingInv, NEW d \in Devices, SessionChallenge(d)
    PROVE  PairingInv'
<1> DEFINE asked == [approval |-> device[d].approval, used |-> FALSE,
                     instance |-> instance, expired |-> FALSE]
<1>0. RecordsOK
    BY DEF PairingInv
<1>1. asked \in ChallengeType
    BY <1>0 DEF RecordsOK, DeviceType, ChallengeType, SessionChallenge
<1>2. /\ challenge' = [challenge EXCEPT ![d] = asked]
      /\ UNCHANGED <<instance, invite, request, device, grant, session, consent>>
    BY DEF SessionChallenge
<1> HIDE DEF asked
<1>3. RecordsOK'
    BY <1>0, <1>1, <1>2 DEF RecordsOK
<1>. QED
    BY <1>2, <1>3, QuietStep DEF PairingInv

LEMMA ReconnectKeeps ==
    ASSUME PairingInv, NEW d \in Devices, SessionReconnect(d)
    PROVE  PairingInv'
<1>0. /\ RecordsOK /\ ScansComplete /\ Allowed /\ OneOpen
      /\ challenge[d] \in ChallengeType
    BY DEF PairingInv, RecordsOK, SessionReconnect, Answers
<1>1. [challenge[d] EXCEPT !.used = TRUE] \in ChallengeType
    BY <1>0 DEF ChallengeType
<1>2. /\ challenge' = [challenge EXCEPT ![d] = [challenge[d] EXCEPT !.used = TRUE]]
      /\ IssueSession(d, d)
      /\ UNCHANGED <<instance, invite, request, device, grant, consent>>
    BY <1>0 DEF SessionReconnect, RecordsOK
<1>3. d \in Keys /\ d \notin Grants
    BY <1>0, PairingAssumption DEF Keys
<1>4. /\ session' \in [Keys -> SessionType \cup {None}] /\ Bounded(session') /\ OneOpen'
      /\ \A g \in Grants : Open(g)' => consent'[session'[g].device].enrolled
    BY <1>0, <1>2, <1>3, IssueKeeps
<1>5. RecordsOK'
    BY <1>0, <1>1, <1>2, <1>4 DEF RecordsOK
<1>6. ScansComplete'
    BY <1>0, <1>2, <1>4 DEF ScansComplete, Bounded, Stored
<1>7. Allowed'
    BY <1>0, <1>2, <1>4 DEF Allowed
<1>. QED
    BY <1>4, <1>5, <1>6, <1>7 DEF PairingInv

LEMMA RedeemKeeps ==
    ASSUME PairingInv, NEW g \in Grants, Redeem(g)
    PROVE  PairingInv'
<1> DEFINE d == grant[g].device
<1>0. /\ RecordsOK /\ ScansComplete /\ Allowed /\ OneOpen
      /\ grant[g] \in GrantType /\ grant[g] # None /\ ~grant[g].used /\ d \in Devices
    BY DEF PairingInv, RecordsOK, Redeem, GrantType
<1>1. /\ [grant[g] EXCEPT !.used = TRUE] \in GrantType
      /\ [grant[g] EXCEPT !.used = TRUE].used
    BY <1>0, UsedGrant
<1>2. /\ grant' = [grant EXCEPT ![g] = [grant[g] EXCEPT !.used = TRUE]]
      /\ IssueSession(g, d)
      /\ UNCHANGED <<instance, invite, request, device, challenge, consent>>
    BY <1>0 DEF Redeem, RecordsOK
<1>3. consent[d].enrolled
    BY <1>0 DEF Allowed
<1> HIDE DEF d
<1>4. g \in Keys /\ g \notin Devices
    BY PairingAssumption DEF Keys
<1>5. /\ session' \in [Keys -> SessionType \cup {None}] /\ Bounded(session') /\ OneOpen'
      /\ \A h \in Grants : Open(h)' => consent'[session'[h].device].enrolled
    BY <1>0, <1>2, <1>3, <1>4, IssueKeeps
<1>6. RecordsOK'
    BY <1>0, <1>1, <1>2, <1>5 DEF RecordsOK
<1>7. ScansComplete'
    <2>1. Stored(grant') \subseteq Stored(grant)
        BY <1>0, <1>2 DEF RecordsOK, Stored
    <2>. QED
        BY <1>0, <1>5, <2>1, StaysBounded DEF ScansComplete
<1>8. Allowed'
    BY <1>0, <1>1, <1>2, <1>5 DEF Allowed, RecordsOK
<1>. QED
    BY <1>5, <1>6, <1>7, <1>8 DEF PairingInv

\* A session that is only revoked, or only expires, leaves the others as they are.
LEMMA SessionEnds ==
    ASSUME PairingInv, NEW k \in Keys, NEW s \in SessionType,
           session[k] # None, s.device = session[k].device,
           ~s.revoked => ~session[k].revoked,
           session' = [session EXCEPT ![k] = s],
           UNCHANGED <<instance, invite, request, device, grant, challenge, consent>>
    PROVE  PairingInv'
<1>0. RecordsOK /\ ScansComplete /\ Allowed /\ OneOpen
    BY DEF PairingInv
<1>1. RecordsOK'
    BY <1>0 DEF RecordsOK
<1>2. \A j \in Keys : /\ session'[j] # None => session[j] # None /\ session'[j].device = session[j].device
                      /\ Open(j)' => Open(j)
    BY <1>0 DEF RecordsOK, Open
<1>3. ScansComplete'
    <2>1. Stored(session') \subseteq Stored(session)
        BY <1>0, <1>2 DEF RecordsOK, Stored
    <2>2. Bounded(session')
        BY <1>0, <2>1, StaysBounded DEF ScansComplete
    <2>. QED
        BY <1>0, <2>2 DEF ScansComplete, Bounded, Stored
<1>4. Allowed'
    BY <1>0, <1>2 DEF Allowed, Keys, Open
<1>5. OneOpen'
    BY <1>0, <1>2 DEF OneOpen, Keys, Open
<1>. QED
    BY <1>1, <1>3, <1>4, <1>5 DEF PairingInv

LEMMA RevokeKeeps ==
    ASSUME PairingInv, NEW k \in Keys, Revoke(k)
    PROVE  PairingInv'
<1>1. session[k] # None /\ session[k] \in SessionType
    BY DEF Revoke, Live, PairingInv, RecordsOK
<1>2. /\ session' = [session EXCEPT ![k] = [session[k] EXCEPT !.revoked = TRUE]]
      /\ UNCHANGED <<instance, invite, request, device, grant, challenge, consent>>
    BY DEF Revoke, PairingInv, RecordsOK
<1>. QED
    BY <1>1, <1>2, RevokedSession, SessionEnds

LEMMA ExpireKeeps == PairingInv /\ Expire => PairingInv'
<1> SUFFICES ASSUME PairingInv, Expire PROVE PairingInv'
    OBVIOUS
<1>0. RecordsOK /\ ScansComplete /\ Allowed /\ OneOpen /\ UNCHANGED <<instance, device, consent>>
    BY DEF PairingInv, Expire
<1>1. ASSUME NEW i \in Stored(invite), invite' = [invite EXCEPT ![i].expired = TRUE],
             UNCHANGED <<request, grant, session, challenge>>
      PROVE  PairingInv'
    <2>1. invite[i] \in InviteType
        BY <1>0 DEF RecordsOK, Stored
    <2>2. [invite[i] EXCEPT !.expired = TRUE] \in InviteType
        BY <2>1 DEF InviteType
    <2>3. RecordsOK'
        BY <1>0, <1>1, <2>2 DEF RecordsOK
    <2>. QED
        BY <1>0, <1>1, <2>3, QuietStep DEF PairingInv
<1>2. ASSUME NEW r \in Stored(request), request' = [request EXCEPT ![r].expired = TRUE],
             UNCHANGED <<invite, grant, session, challenge>>
      PROVE  PairingInv'
    <2>1. request[r] \in RequestType
        BY <1>0 DEF RecordsOK, Stored
    <2>2. [request[r] EXCEPT !.expired = TRUE] \in RequestType
        BY <2>1 DEF RequestType
    <2>3. RecordsOK'
        BY <1>0, <1>2, <2>2 DEF RecordsOK
    <2>. QED
        BY <1>0, <1>2, <2>3, QuietStep DEF PairingInv
<1>3. ASSUME NEW g \in Stored(grant), grant' = [grant EXCEPT ![g].expired = TRUE],
             UNCHANGED <<invite, request, session, challenge>>
      PROVE  PairingInv'
    <2> DEFINE old == [grant[g] EXCEPT !.expired = TRUE]
    <2>1. g \in Grants /\ grant[g] # None /\ grant[g] \in GrantType
        BY <1>0 DEF RecordsOK, Stored
    <2>2. old \in GrantType /\ old.used = grant[g].used /\ old.device = grant[g].device
        BY <2>1 DEF GrantType
    <2>3. grant' = [grant EXCEPT ![g] = old]
        BY <1>0, <1>3, <2>1 DEF RecordsOK
    <2> HIDE DEF old
    <2>4. RecordsOK'
        BY <1>0, <1>3, <2>1, <2>2, <2>3 DEF RecordsOK
    <2>5. ScansComplete'
        <3>1. Stored(grant') \subseteq Stored(grant)
            BY <1>0, <2>1, <2>3 DEF RecordsOK, Stored
        <3>2. Bounded(grant')
            BY <1>0, <3>1, StaysBounded DEF ScansComplete
        <3>. QED
            BY <1>0, <1>3, <3>2 DEF ScansComplete, Bounded, Stored
    <2>6. Allowed' /\ OneOpen'
        BY <1>0, <1>3, <2>1, <2>2, <2>3 DEF RecordsOK, Allowed, OneOpen, Open
    <2>. QED
        BY <2>4, <2>5, <2>6 DEF PairingInv
<1>4. ASSUME NEW k \in Stored(session), session' = [session EXCEPT ![k].expired = TRUE],
             UNCHANGED <<invite, request, grant, challenge>>
      PROVE  PairingInv'
    <2> DEFINE old == [session[k] EXCEPT !.expired = TRUE]
    <2>1. k \in Keys /\ session[k] # None /\ session[k] \in SessionType
        BY <1>0 DEF RecordsOK, Stored
    <2>2. old \in SessionType /\ old.revoked = session[k].revoked /\ old.device = session[k].device
        BY <2>1 DEF SessionType
    <2>3. session' = [session EXCEPT ![k] = old]
        BY <1>0, <1>4, <2>1 DEF RecordsOK
    <2> HIDE DEF old
    <2>. QED
        BY <1>0, <1>4, <2>1, <2>2, <2>3, SessionEnds
<1>5. ASSUME NEW d \in Stored(challenge), challenge' = [challenge EXCEPT ![d].expired = TRUE],
             UNCHANGED <<invite, request, grant, session>>
      PROVE  PairingInv'
    <2>1. challenge[d] \in ChallengeType
        BY <1>0 DEF RecordsOK, Stored
    <2>2. [challenge[d] EXCEPT !.expired = TRUE] \in ChallengeType
        BY <2>1 DEF ChallengeType
    <2>3. RecordsOK'
        BY <1>0, <1>5, <2>2 DEF RecordsOK
    <2>. QED
        BY <1>0, <1>5, <2>3, QuietStep DEF PairingInv
<1>. QED
    BY <1>1, <1>2, <1>3, <1>4, <1>5 DEF Expire

LEMMA RestartKeeps == PairingInv /\ Restart => PairingInv'
<1> SUFFICES ASSUME PairingInv, Restart PROVE PairingInv'
    OBVIOUS
<1>1. RecordsOK'
    BY DEF PairingInv, Restart, RecordsOK
<1>. QED
    BY <1>1, QuietStep DEF Restart, PairingInv

\* Every step of the owner, the devices, the clock and a restart preserves the invariant.
LEMMA PairingStep == PairingInv /\ [Next]_vars => PairingInv'
<1> SUFFICES ASSUME PairingInv, [Next]_vars PROVE PairingInv'
    OBVIOUS
<1>1. CASE UNCHANGED vars
    <2>1. RecordsOK'
        BY <1>1 DEF vars, PairingInv, RecordsOK
    <2>. QED
        BY <1>1, <2>1, QuietStep DEF vars, PairingInv
<1>. QED
    BY <1>1, InviteKeeps, ApproveKeeps, RevokeDeviceKeeps, EnrollmentKeeps, BeginKeeps,
       CompleteKeeps, ChallengeKeeps, ReconnectKeeps, RedeemKeeps, RevokeKeeps, ExpireKeeps,
       RestartKeeps DEF Next

\* The records keep their shape and no scan is ever cut short, what stands was
\* allowed, and a device has one open session: the inductive invariant of the
\* gateway (pairing.py, service.py:186-213).
THEOREM PairingIsInvariant == Spec => []PairingInv
BY PairingInit, PairingStep, PTL DEF Spec

\* A device has a live session only while the owner's last decision on its path
\* allows it: no message, code or challenge survives a revocation
\* (pairing.py:129-142, service.py:186-213).
THEOREM SessionsNeedConsent == Spec => []LiveNeedsConsent
<1>1. PairingInv => LiveNeedsConsent
    BY DEF PairingInv, Allowed, Open, LiveNeedsConsent, Live, Keys
<1>. QED
    BY <1>1, PairingIsInvariant, PTL

\* A device never has two live sessions, however many paths it used (service.py:200).
THEOREM SessionsAreSingle == Spec => []OneLiveSession
<1>1. PairingInv => OneLiveSession
    BY DEF PairingInv, OneOpen, Open, OneLiveSession, Live
<1>. QED
    BY <1>1, PairingIsInvariant, PTL

\* What a step does to the session of d under its own key, when that step issues one for e.
LEMMA OtherSessionStays ==
    ASSUME PairingInv, NEW d \in Devices, NEW e \in Devices, NEW k \in Keys, k # d,
           k \in Devices => k = e,
           IssueSession(k, e)
    PROVE  session'[d] = session[d] \/ session'[d] # Fresh(d)
<1>0. RecordsOK /\ ScansComplete /\ d \in Keys
    BY DEF PairingInv, Keys
<1>1. session'[d] = Closed(d, e)
    BY <1>0, IssueStep
<1>2. session[d] # None => session[d] \in SessionType
    BY <1>0 DEF RecordsOK
<1>. QED
    BY <1>1, <1>2, RevokedSession DEF Closed, Fresh

\* A session opened anew for an approved device was opened under that very approval:
\* by the request it names, or by a challenge made for it (pairing.py:207, 215-217).
THEOREM ApprovalsStartOver == Spec => ApprovalStartsOver
<1> DEFINE Renewed(d) == /\ device[d] # None
                         /\ session[d] # session'[d] /\ session'[d] = Fresh(d)
           UnderApproval(d) ==
               \/ challenge[d] # challenge'[d] /\ challenge[d].approval = device[d].approval
               \/ \E r \in Requests : request[r] # request'[r] /\ device[d].approval = r
<1>1. ASSUME PairingInv, [Next]_vars PROVE [\A d \in Devices : Renewed(d) => UnderApproval(d)]_vars
    <2>0. RecordsOK /\ ScansComplete
        BY <1>1 DEF PairingInv
    <2> SUFFICES ASSUME Next, NEW d \in Devices, Renewed(d) PROVE UnderApproval(d)
        BY <1>1
    <2>1. d \in Keys /\ d \notin Grants /\ ~Fresh(d).revoked /\ ~Fresh(d).expired
        BY PairingAssumption DEF Keys, Fresh
    <2>2. ASSUME NEW r \in Requests, PairingComplete(r) PROVE UnderApproval(d)
        <3> DEFINE e == request[r].device
        <3>1. request[r] \in RequestType /\ e \in Devices /\ e \in Keys
            BY <2>0, <2>2 DEF RecordsOK, RequestType, PairingComplete, Keys
        <3>2. e = d
            BY <1>1, <2>2, <3>1, OtherSessionStays DEF PairingComplete
        <3>3. request'[r].phase = "COMPLETED" /\ request[r].phase = "APPROVED"
            BY <2>0, <2>2, <3>1 DEF RecordsOK, RequestType, PairingComplete, Approved
        <3>. QED
            BY <2>2, <3>2, <3>3 DEF PairingComplete, Approved
    <2>3. ASSUME NEW e \in Devices, SessionReconnect(e) PROVE UnderApproval(d)
        <3>1. e = d
            BY <1>1, <2>3, OtherSessionStays DEF SessionReconnect, Keys
        <3>2. challenge[d] \in ChallengeType /\ ~challenge[d].used /\ challenge'[d].used
            BY <2>0, <2>3, <3>1 DEF RecordsOK, ChallengeType, SessionReconnect, Answers
        <3>. QED
            BY <2>3, <3>1, <3>2 DEF SessionReconnect, Answers
    <2>4. ASSUME NEW g \in Grants, Redeem(g) PROVE FALSE
        <3>1. grant[g].device \in Devices /\ g \in Keys /\ g # d /\ g \notin Devices
            BY <2>0, <2>1, <2>4, PairingAssumption DEF RecordsOK, GrantType, Redeem, Keys
        <3>. QED
            BY <1>1, <2>4, <3>1, OtherSessionStays DEF Redeem
    <2>5. ASSUME NEW e \in Devices, PairingRevoke(e) PROVE FALSE
        <3>1. session'[d] = Closed(d, e)
            BY <2>0, <2>1, <2>5, RevokesAll DEF PairingRevoke
        <3>2. session[d] # None => session[d] \in SessionType
            BY <2>0, <2>1 DEF RecordsOK
        <3>. QED
            BY <2>1, <3>1, <3>2, RevokedSession DEF Closed
    <2>6. ASSUME NEW k \in Keys, Revoke(k) PROVE FALSE
        <3>1. session[k] \in SessionType /\ session' = [session EXCEPT ![k] = [session[k] EXCEPT !.revoked = TRUE]]
            BY <2>0, <2>6 DEF RecordsOK, Revoke, Live
        <3>. QED
            BY <2>0, <2>1, <3>1, RevokedSession DEF RecordsOK
    <2>7. CASE Expire
        <3>1. \/ UNCHANGED session
              \/ \E k \in Stored(session) : session' = [session EXCEPT ![k].expired = TRUE]
            BY <2>7 DEF Expire
        <3>2. ASSUME NEW k \in Stored(session), session' = [session EXCEPT ![k].expired = TRUE]
              PROVE  FALSE
            <4>1. session[k] \in SessionType /\ k \in Keys
                BY <2>0 DEF RecordsOK, Stored
            <4>2. session'[k].expired /\ \A j \in Keys \ {k} : session'[j] = session[j]
                BY <2>0, <3>2, <4>1 DEF RecordsOK, SessionType
            <4>. QED
                BY <2>1, <4>2
        <3>. QED
            BY <3>1, <3>2
    <2>8. UNCHANGED session => UnderApproval(d)
        OBVIOUS
    <2> HIDE DEF UnderApproval, Renewed
    <2>. QED
        BY <2>2, <2>3, <2>4, <2>5, <2>6, <2>7, <2>8
        DEF Next, PairingInvite, PairingBegin, PairingApprove, SessionChallenge, IssueEnrollment,
            Restart
<1>2. PairingInv /\ [Next]_vars => [\A d \in Devices : Renewed(d) => UnderApproval(d)]_vars
    BY <1>1
<1>. QED
    BY <1>2, PairingIsInvariant, PTL DEF Spec, ApprovalStartsOver

-----------------------------------------------------------------------------
(* Signed packets *)

CONSTANTS Packets, Window, NonceLimit
VARIABLES now, issued, recent, handling, at, left, kept, uses, backs, setback

W == INSTANCE ReplayWindow WITH Limit <- NonceLimit

\* The clock, time stamps and counts are integers of the right kind; a handler has a packet.
Shape ==
    /\ now \in Nat /\ backs \in Nat
    /\ issued \in [Packets -> Nat] /\ uses \in [Packets -> Nat]
    /\ recent \subseteq Packets /\ left \subseteq recent /\ kept \subseteq recent
    /\ at \in {"idle", "stamped", "looking"}
    /\ handling \in Packets \cup {None} /\ (handling = None <=> at = "idle")
    /\ at # "looking" => left = {} /\ kept = {}

\* The handler, if any, that looks at the nonces has not dropped that of p.
Remembers(p) == p \in recent /\ (at = "looking" => p \in left \cup kept)

\* How often p may yet be accepted before the clock is set back.
Chances(p) ==
    IF now <= W!Until(p) THEN IF Remembers(p) THEN 1 ELSE 2
    ELSE IF handling = p THEN 1 ELSE 0

\* The inductive invariant: a packet that was accepted and whose window the clock has not
\* passed since is remembered; every acceptance took one of its chances, of which it has two
\* whenever the clock is set back.
WindowInv ==
    /\ Shape
    /\ \A p \in Packets : uses[p] > 0 /\ p \notin setback /\ now <= W!Until(p) => Remembers(p)
    /\ \A p \in Packets : uses[p] + Chances(p) <= 2 * (backs + 1)

\* The invariant holds initially (no nonce is kept and no packet was used).
LEMMA WindowInit == W!WindowAssumption /\ W!Init => WindowInv
BY DEF W!WindowAssumption, W!Init, WindowInv, Shape, Chances, Remembers

\* A step of the clock: forward it only takes chances away, back it gives at most two.
LEMMA ClockKeeps ==
    ASSUME W!WindowAssumption, WindowInv, NEW t \in Nat, W!SetClock(t)
    PROVE  WindowInv'
<1>0. /\ now' = t /\ UNCHANGED <<issued, recent, handling, at, left, kept, uses>>
      /\ IF t < now THEN backs' = backs + 1 /\ setback' = Packets
                    ELSE backs' = backs /\ setback' = setback
    BY DEF W!SetClock, W!handler
<1>1. Shape'
    BY <1>0 DEF WindowInv, Shape
<1>2. ASSUME NEW p \in Packets
      PROVE  /\ W!Until(p)' = W!Until(p) /\ W!Until(p) \in Nat
             /\ Remembers(p)' = Remembers(p)
    BY <1>0 DEF W!WindowAssumption, WindowInv, Shape, W!Until, Remembers
<1>3. ASSUME NEW p \in Packets, (uses[p] > 0 /\ p \notin setback /\ now <= W!Until(p))'
      PROVE  Remembers(p)'
    BY <1>0, <1>2, <1>3 DEF WindowInv, Shape
<1>4. ASSUME NEW p \in Packets
      PROVE  (uses[p] + Chances(p) <= 2 * (backs + 1))'
    <2>1. uses[p] \in Nat /\ uses[p] + Chances(p) <= 2 * (backs + 1)
        BY DEF WindowInv, Shape
    <2>2. CASE t < now
        BY <1>0, <1>2, <2>1, <2>2 DEF Chances, WindowInv, Shape
    <2>3. CASE t >= now
        BY <1>0, <1>2, <2>1, <2>3 DEF Chances, WindowInv, Shape
    <2>. QED
        BY <2>2, <2>3 DEF WindowInv, Shape
<1>. QED
    BY <1>1, <1>3, <1>4 DEF WindowInv

\* What a step leaves that is not of the clock and accepts nothing: it may forget only what
\* has outlived its window.
LEMMA QuietWindow ==
    ASSUME W!WindowAssumption, WindowInv, Shape', UNCHANGED <<now, issued, uses, backs, setback>>,
           \A p \in Packets : now <= W!Until(p) /\ Remembers(p) => Remembers(p)',
           \A p \in Packets : now > W!Until(p) /\ handling' = p => handling = p
    PROVE  WindowInv'
<1>1. ASSUME NEW p \in Packets
      PROVE  W!Until(p)' = W!Until(p) /\ W!Until(p) \in Nat
    BY DEF W!WindowAssumption, WindowInv, Shape, W!Until
<1>2. ASSUME NEW p \in Packets, (uses[p] > 0 /\ p \notin setback /\ now <= W!Until(p))'
      PROVE  Remembers(p)'
    BY <1>1, <1>2 DEF WindowInv
<1>3. ASSUME NEW p \in Packets
      PROVE  (uses[p] + Chances(p) <= 2 * (backs + 1))'
    <2>0. /\ now <= W!Until(p) /\ Remembers(p) => Remembers(p)'
          /\ now > W!Until(p) /\ handling' = p => handling = p
          /\ now \in Nat /\ now' = now /\ W!Until(p)' = W!Until(p) /\ W!Until(p) \in Nat
        BY <1>1 DEF WindowInv, Shape
    <2>1. Chances(p)' <= Chances(p) /\ Chances(p) \in 0..2 /\ Chances(p)' \in 0..2
        <3>1. CASE now <= W!Until(p)
            BY <2>0, <3>1 DEF Chances
        <3>2. CASE now > W!Until(p)
            <4>1. ~(now <= W!Until(p)) /\ ~(now <= W!Until(p))'
                BY <2>0, <3>2
            <4>. QED
                BY <2>0, <3>2, <4>1 DEF Chances
        <3>. QED
            BY <2>0, <3>1, <3>2
    <2>2. uses[p] \in Nat /\ backs \in Nat /\ uses[p] + Chances(p) <= 2 * (backs + 1)
        BY DEF WindowInv, Shape
    <2>. QED
        BY <2>1, <2>2
<1>. QED
    BY <1>2, <1>3 DEF WindowInv

\* An acceptance: the nonce is not among those kept, so the packet had a chance left.
LEMMA AcceptKeeps ==
    ASSUME W!WindowAssumption, WindowInv, W!Accept
    PROVE  WindowInv'
<1>0. /\ handling \in Packets /\ at = "looking" /\ left = {} /\ handling \notin kept
      /\ recent' = kept \cup {handling} /\ uses' = [uses EXCEPT ![handling] = @ + 1]
      /\ setback' = setback \ {handling}
      /\ handling' = None /\ at' = "idle" /\ kept' = {}
      /\ UNCHANGED <<now, issued, left, backs>>
    BY DEF W!Accept, WindowInv, Shape
<1>1. Shape'
    BY <1>0 DEF WindowInv, Shape
<1>2. /\ uses'[handling] = uses[handling] + 1 /\ uses[handling] \in Nat /\ backs \in Nat
      /\ \A p \in Packets \ {handling} : uses'[p] = uses[p]
    BY <1>0 DEF WindowInv, Shape
<1>3. ASSUME NEW p \in Packets
      PROVE  /\ W!Until(p)' = W!Until(p) /\ W!Until(p) \in Nat
             /\ Remembers(p) <=> p \in kept
             /\ Remembers(p)' <=> p \in kept \/ p = handling
    BY <1>0 DEF W!WindowAssumption, WindowInv, Shape, W!Until, Remembers
<1>4. ASSUME NEW p \in Packets, (uses[p] > 0 /\ p \notin setback /\ now <= W!Until(p))'
      PROVE  Remembers(p)'
    BY <1>0, <1>2, <1>3, <1>4 DEF WindowInv
<1>5. ASSUME NEW p \in Packets
      PROVE  (uses[p] + Chances(p) <= 2 * (backs + 1))'
    <2>1. uses[p] + Chances(p) <= 2 * (backs + 1) /\ uses[p] \in Nat
        BY DEF WindowInv, Shape
    <2>2. CASE p = handling
        <3>1. Chances(p) = IF now <= W!Until(p) THEN 2 ELSE 1
            BY <1>0, <1>3, <2>2 DEF Chances
        <3>2. Chances(p)' = IF now <= W!Until(p) THEN 1 ELSE 0
            BY <1>0, <1>3, <2>2 DEF Chances, W!WindowAssumption
        <3>. QED
            BY <1>0, <1>2, <1>3, <2>1, <2>2, <3>1, <3>2
    <2>3. CASE p # handling
        BY <1>0, <1>2, <1>3, <2>1, <2>3 DEF Chances, W!WindowAssumption
    <2>. QED
        BY <2>2, <2>3
<1>. QED
    BY <1>1, <1>4, <1>5 DEF WindowInv

\* Every step of the handlers, the owner and the clock preserves it.
LEMMA WindowStep == W!WindowAssumption /\ WindowInv /\ [W!Next]_(W!vars) => WindowInv'
<1> SUFFICES ASSUME W!WindowAssumption, WindowInv, [W!Next]_(W!vars) PROVE WindowInv'
    OBVIOUS
<1>0. Shape
    BY DEF WindowInv
<1>1. ASSUME NEW t \in Nat, W!SetClock(t) PROVE WindowInv'
    BY <1>1, ClockKeeps
<1>2. ASSUME NEW p \in Packets, W!Receive(p) PROVE WindowInv'
    <2>1. Shape'
        BY <1>0, <1>2 DEF W!Receive, Shape, W!WindowAssumption
    <2>2. \A q \in Packets : Remembers(q) => Remembers(q)'
        BY <1>2 DEF W!Receive, Remembers
    <2>3. \A q \in Packets : now > W!Until(q) => handling' # q
        BY <1>0, <1>2 DEF W!Receive, W!Until, Shape, W!WindowAssumption
    <2>. QED
        BY <1>2, <2>1, <2>2, <2>3, QuietWindow DEF W!Receive
<1>3. CASE W!Stamped
    <2>1. Shape' /\ \A q \in Packets : Remembers(q) => Remembers(q)'
        BY <1>0, <1>3 DEF W!Stamped, Shape, Remembers
    <2>. QED
        BY <1>3, <2>1, QuietWindow DEF W!Stamped
<1>4. ASSUME NEW p \in Packets, W!Look(p) PROVE WindowInv'
    <2>1. Shape'
        BY <1>0, <1>4 DEF W!Look, Shape
    <2>2. \A q \in Packets : now <= W!Until(q) /\ Remembers(q) => Remembers(q)'
        BY <1>4 DEF W!Look, Remembers
    <2>. QED
        BY <1>4, <2>1, <2>2, QuietWindow DEF W!Look
<1>5. CASE W!Accept
    BY <1>5, AcceptKeeps
<1>6. CASE W!Refuse
    <2>1. Shape' /\ (\A q \in Packets : Remembers(q) => Remembers(q)') /\ handling' = None
        BY <1>0, <1>6 DEF W!Refuse, Shape, Remembers
    <2>2. \A q \in Packets : now > W!Until(q) /\ handling' = q => handling = q
        BY <2>1 DEF W!WindowAssumption
    <2>. QED
        BY <1>6, <2>1, <2>2, QuietWindow DEF W!Refuse
<1>7. CASE W!Approve
    <2>1. Shape'
        BY <1>0, <1>7 DEF W!Approve, W!handler, Shape
    <2>2. \A q \in Packets : now <= W!Until(q) /\ Remembers(q) => Remembers(q)'
        BY <1>7 DEF W!Approve, W!handler, Remembers
    <2>. QED
        BY <1>7, <2>1, <2>2, QuietWindow DEF W!Approve, W!handler
<1>8. CASE UNCHANGED W!vars
    <2>1. Shape' /\ \A q \in Packets : Remembers(q) => Remembers(q)'
        BY <1>0, <1>8 DEF W!vars, W!handler, Shape, Remembers
    <2>. QED
        BY <1>8, <2>1, QuietWindow DEF W!vars, W!handler
<1>. QED
    BY <1>1, <1>2, <1>3, <1>4, <1>5, <1>6, <1>7, <1>8 DEF W!Next

\* A signed packet that was accepted is accepted again only by a handler that reads the clock
\* past the end of its window, having read it within the window for the time stamp, or when
\* the clock was set back since (pairing.py:43-51, 119-123, 162): for any movement of the
\* clock between any two readings.
THEOREM PacketReusedOnlyLate == W!WindowAssumption => (W!Spec => W!AcceptedAgainLate)
<1> SUFFICES ASSUME W!WindowAssumption PROVE W!Spec => W!AcceptedAgainLate
    OBVIOUS
<1>1. WindowInv /\ [W!Next]_(W!vars) =>
        [\A p \in Packets : uses[p] > 0 /\ uses'[p] > uses[p] =>
             now > W!Until(p) \/ p \in setback]_(W!vars)
    <2> SUFFICES ASSUME WindowInv, W!Next, NEW p \in Packets, uses[p] > 0, uses'[p] > uses[p],
                        p \notin setback
                 PROVE  now > W!Until(p)
        OBVIOUS
    <2>0. uses \in [Packets -> Nat] /\ now \in Nat /\ W!Until(p) \in Nat
        BY DEF WindowInv, Shape, W!Until, W!WindowAssumption
    <2>1. uses' # uses
        BY <2>0
    <2>2. W!Accept
        BY <2>1 DEF W!Next, W!SetClock, W!Receive, W!Stamped, W!Look, W!Refuse, W!Approve
    <2>3. handling = p /\ p \notin kept /\ left = {} /\ at = "looking"
        BY <2>0, <2>2 DEF W!Accept
    <2>. QED
        BY <2>0, <2>3 DEF WindowInv, Remembers
<1>2. W!Spec => []WindowInv
    BY WindowInit, WindowStep, PTL DEF W!Spec
<1>. QED
    BY <1>1, <1>2, PTL DEF W!Spec, W!AcceptedAgainLate

\* A packet is accepted at most twice for every stretch of time in which the clock is not set
\* back, and so at most twice if it never is (service.py:150, pairing.py:46): the nonces bound
\* what repeated delivery can do, whatever the clock does.
THEOREM PacketUsesBounded == W!WindowAssumption => (W!Spec => []W!UsesBounded)
<1> SUFFICES ASSUME W!WindowAssumption PROVE W!Spec => []W!UsesBounded
    OBVIOUS
<1>1. WindowInv => W!UsesBounded
    <2> SUFFICES ASSUME WindowInv, NEW p \in Packets PROVE uses[p] <= 2 * (backs + 1)
        BY DEF W!UsesBounded
    <2>1. uses[p] \in Nat /\ backs \in Nat /\ uses[p] + Chances(p) <= 2 * (backs + 1)
        BY DEF WindowInv, Shape
    <2>2. Chances(p) \in 0..2
        BY DEF Chances
    <2>. QED
        BY <2>1, <2>2
<1>2. W!Spec => []WindowInv
    BY WindowInit, WindowStep, PTL DEF W!Spec
<1>. QED
    BY <1>1, <1>2, PTL

-----------------------------------------------------------------------------
(* The permit gate of the live provider *)

CONSTANTS Callers, Owner, N, Contents, Heads, Runs, MaxCalls
VARIABLES head, tree, evidence, accepted, permit, expired, used, pc, read, quiet, posts

L == INSTANCE LiveGate

\* What the constants must be. LIVE permits have MaxCalls = 1.
GateAssumption ==
    /\ IsFiniteSet(Callers)
    /\ N \in Nat /\ MaxCalls \in Nat
    /\ None \notin L!Permits

\* Callers whose unit is taken and whose call is not yet sent.
Holds == {"authorized", "transport", "send"}
Holding == {c \in Callers : pc[c] \in Holds}

\* Every call sent, and every call still to be sent, has its unit in the ledger.
UnitsInv == posts + Cardinality(Holding) <= used

\* An evidence whose test run was accepted is about its own commit and tree.
Tested(e, h, t) == e \in accepted /\ e.head = h /\ e.tree = t

\* A permit, and a finished reading, name tested source; a caller past its
\* first check has a permit, and a permit is issued once.
PermitInv ==
    /\ evidence \in accepted
    /\ permit # None => Tested(permit.evidence, permit.head, permit.tree)
    /\ pc[Owner] = "issue" => permit = None
    /\ \A r \in L!Readers :
          L!Reading(r) /\ read[r].at = N + 2 => Tested(read[r].evidence, read[r].head, read[r].tree)
    /\ \A c \in Callers : pc[c] \in {"require", "key", "authorize", "consume"} \cup Holds => permit # None

\* While nothing changes, what the transport has read is what is there.
QuietInv ==
    \A c \in Callers : pc[c] = "transport" /\ quiet[c] =>
        /\ read[c].at > 0 => read[c].head = head
        /\ \A f \in L!Files : f < read[c].at => read[c].tree[f] = tree[f]
        /\ read[c].at = N + 2 => read[c].evidence = evidence

GateInv == L!TypeOK /\ UnitsInv /\ PermitInv /\ QuietInv /\ L!SentFromTestedSource

-----------------------------------------------------------------------------
(* The three readings of the source-state reader are well typed *)

\* What one reading does to a reader's record.
LEMMA ReadType ==
    ASSUME GateAssumption, L!TypeOK, NEW r \in L!Readers,
           L!ReadHead(r) \/ L!HashFile(r) \/ L!ReadEvidence(r)
    PROVE  /\ read' \in [L!Readers -> L!Readings]
           /\ \A q \in L!Readers : q # r => read'[q] = read[q]
           /\ read'[r].at = read[r].at + 1
<1>0. /\ N \in Nat /\ read \in [L!Readers -> L!Readings] /\ read[r] \in L!Readings
      /\ head \in Heads /\ tree \in L!Trees /\ evidence \in L!Evidence
    BY DEF GateAssumption, L!TypeOK
<1>1. ASSUME NEW x \in L!Readings, L!Reads(r, x)
      PROVE  /\ read' \in [L!Readers -> L!Readings]
             /\ \A q \in L!Readers : q # r => read'[q] = read[q]
             /\ read'[r] = x
    BY <1>0, <1>1 DEF L!Reads
<1>2. CASE L!ReadHead(r)
    <2> DEFINE x == [read[r] EXCEPT !.at = 1, !.head = head]
    <2>0. 1 \in 0..(N + 2)
        BY <1>0
    <2>1. x \in L!Readings /\ x.at = 1
        BY <1>0, <2>0 DEF L!Readings
    <2>2. L!Reads(r, x) /\ read[r].at = 0
        BY <1>2 DEF L!ReadHead
    <2> HIDE DEF x
    <2>. QED
        BY <1>1, <2>1, <2>2
<1>3. CASE L!HashFile(r)
    <2> DEFINE f == read[r].at
               t == [read[r].tree EXCEPT ![f] = tree[f]]
    <2>1. f \in L!Files /\ f + 1 \in 0..(N + 2)
        BY <1>0, <1>3 DEF L!HashFile, L!Files
    <2>2. t \in L!Trees
        BY <1>0, <2>1 DEF L!Trees, L!Readings
    <2>3. [read[r] EXCEPT !.at = f + 1, !.tree = [@ EXCEPT ![f] = tree[f]]] \in L!Readings
        BY <1>0, <2>1, <2>2 DEF L!Readings
    <2>. QED
        BY <1>0, <1>1, <1>3, <2>3 DEF L!HashFile, L!Readings
<1>4. CASE L!ReadEvidence(r)
    <2> DEFINE x == [read[r] EXCEPT !.at = N + 2, !.evidence = evidence]
    <2>0. N + 2 \in 0..(N + 2)
        BY <1>0
    <2>1. x \in L!Readings /\ x.at = N + 2
        BY <1>0, <2>0 DEF L!Readings
    <2>2. L!Reads(r, x) /\ read[r].at = N + 1
        BY <1>4 DEF L!ReadEvidence
    <2> HIDE DEF x
    <2>. QED
        BY <1>0, <1>1, <2>1, <2>2
<1>. QED
    BY <1>2, <1>3, <1>4

-----------------------------------------------------------------------------
(* Counting the callers whose unit is taken *)

\* The callers are finitely many, so the ones holding a unit can be counted.
LEMMA HoldingFinite ==
    ASSUME GateAssumption
    PROVE  IsFiniteSet(Holding) /\ Cardinality(Holding) \in Nat
<1>1. Holding \subseteq Callers
    BY DEF Holding
<1>. QED
    BY <1>1, FS_Subset, FS_CardinalityType DEF GateAssumption

\* A step that takes no unit and sends nothing keeps the count.
LEMMA UnitsKept ==
    ASSUME GateAssumption, L!TypeOK, UnitsInv, Holding' \subseteq Holding,
           UNCHANGED <<used, posts>>
    PROVE  UnitsInv'
<1>1. IsFiniteSet(Holding) /\ Cardinality(Holding) \in Nat
    BY HoldingFinite
<1>2. Cardinality(Holding') \in Nat /\ Cardinality(Holding') <= Cardinality(Holding)
    BY <1>1, FS_Subset, FS_CardinalityType
<1>. QED
    BY <1>1, <1>2 DEF UnitsInv, L!TypeOK

\* Taking a unit is counted in the ledger before the call may be sent.
LEMMA UnitsTaken ==
    ASSUME GateAssumption, L!TypeOK, UnitsInv, NEW c \in Callers, L!Consume(c)
    PROVE  UnitsInv'
<1>1. IsFiniteSet(Holding) /\ Cardinality(Holding) \in Nat
    BY HoldingFinite
<1>2. Holding' = Holding \cup {c} /\ c \notin Holding
    BY DEF L!Consume, L!To, Holding, Holds, L!TypeOK, L!Readers
<1>3. Cardinality(Holding') = Cardinality(Holding) + 1
    BY <1>1, <1>2, FS_AddElement
<1>. QED
    BY <1>1, <1>3 DEF UnitsInv, L!TypeOK, L!Consume

\* Sending a call uses the unit that was taken for it.
LEMMA UnitsSent ==
    ASSUME GateAssumption, L!TypeOK, UnitsInv, NEW c \in Callers, L!Post(c)
    PROVE  UnitsInv'
<1>1. IsFiniteSet(Holding) /\ Cardinality(Holding) \in Nat
    BY HoldingFinite
<1>2. Holding' = Holding \ {c} /\ c \in Holding
    BY DEF L!Post, L!To, Holding, Holds, L!TypeOK, L!Readers
<1>3. Cardinality(Holding') = Cardinality(Holding) - 1
    BY <1>1, <1>2, FS_RemoveElement
<1>. QED
    BY <1>1, <1>3 DEF UnitsInv, L!TypeOK, L!Post

-----------------------------------------------------------------------------
(* The invariant is kept, one group of actions at a time *)

\* The repository may change under every process at any time.
LEMMA WorldStep ==
    ASSUME GateAssumption, GateInv,
           \/ \E f \in L!Files, x \in Contents : L!Edit(f, x)
           \/ \E h \in Heads : L!Commit(h)
           \/ \E n \in Runs : L!Accept(n)
    PROVE  GateInv'
<1> USE DEF GateInv
<1>1. /\ UNCHANGED <<permit, expired, used, pc, read, posts>>
      /\ quiet' = [c \in Callers |-> FALSE]
    BY DEF L!Edit, L!Commit, L!Accept
<1>2. head' \in Heads /\ tree' \in L!Trees
    BY DEF L!Edit, L!Commit, L!Accept, L!TypeOK, L!Trees
<1>3. evidence' \in L!Evidence /\ accepted' \subseteq L!Evidence
    BY DEF L!Edit, L!Commit, L!Accept, L!TypeOK, L!Evidence
<1>4. accepted \subseteq accepted' /\ evidence' \in accepted'
    BY DEF L!Edit, L!Commit, L!Accept, PermitInv
<1>5. L!TypeOK'
    BY <1>1, <1>2, <1>3 DEF L!TypeOK
<1>6. UnitsInv'
    BY <1>1, UnitsKept DEF Holding
<1>7. PermitInv'
    BY <1>1, <1>4 DEF PermitInv, Tested, L!Reading
<1>8. QuietInv' /\ L!SentFromTestedSource'
    BY <1>1 DEF QuietInv, L!SentFromTestedSource
<1>. QED
    BY <1>5, <1>6, <1>7, <1>8

\* One reading of a reader: what is read while all is quiet is what is there,
\* and an evidence that fits the reading makes it a reading of tested source.
LEMMA ReadStep ==
    ASSUME GateAssumption, GateInv, NEW r \in L!Readers,
           L!ReadHead(r) \/ L!HashFile(r) \/ L!ReadEvidence(r)
    PROVE  GateInv'
<1> USE DEF GateInv
<1>1. UNCHANGED <<L!world, permit, expired, used, pc, quiet, posts>>
    BY DEF L!ReadHead, L!HashFile, L!ReadEvidence, L!Reads
<1>2. /\ read' \in [L!Readers -> L!Readings]
      /\ \A q \in L!Readers : q # r => read'[q] = read[q]
      /\ read'[r].at = read[r].at + 1
    BY ReadType
<1>3. L!TypeOK'
    BY <1>1, <1>2 DEF L!TypeOK, L!world
<1>4. UnitsInv'
    BY <1>1, UnitsKept DEF Holding
<1>5. L!SentFromTestedSource'
    BY <1>1 DEF L!SentFromTestedSource, L!world
<1>6. PermitInv'
    <2>1. ASSUME read'[r].at = N + 2
          PROVE  Tested(read'[r].evidence, read'[r].head, read'[r].tree)
        <3>1. read[r] \in L!Readings /\ read[r].at = N + 1 /\ N \in Nat
            BY <1>2, <2>1 DEF GateAssumption, L!TypeOK, L!Readings
        <3>2. L!ReadEvidence(r)
            BY <3>1 DEF L!ReadHead, L!HashFile, L!Files
        <3>3. read'[r] = [read[r] EXCEPT !.at = N + 2, !.evidence = evidence]
            BY <3>2 DEF L!ReadEvidence, L!Reads, L!TypeOK
        <3>4. read'[r].evidence = evidence /\ read'[r].head = read[r].head /\ read'[r].tree = read[r].tree
            BY <3>1, <3>3 DEF L!Readings
        <3>. QED
            BY <3>2, <3>4 DEF L!ReadEvidence, PermitInv, Tested
    <2>. QED
        BY <1>1, <1>2, <2>1 DEF PermitInv, Tested, L!Reading, L!world
<1>7. QuietInv'
    <2>1. ASSUME r \in Callers, pc[r] = "transport", quiet[r]
          PROVE  /\ read'[r].head = head
                 /\ \A f \in L!Files : f < read'[r].at => read'[r].tree[f] = tree[f]
                 /\ read'[r].at = N + 2 => read'[r].evidence = evidence
        <3>1. CASE L!ReadHead(r)
            BY <2>1, <3>1, <1>2 DEF GateAssumption, L!ReadHead, L!Reads, L!TypeOK, L!Readings,
                                    L!Files
        <3>2. CASE L!HashFile(r)
            BY <2>1, <3>2, <1>2 DEF GateAssumption, L!HashFile, L!Reads, L!TypeOK, L!Readings,
                                    L!Trees, L!Files, QuietInv
        <3>3. CASE L!ReadEvidence(r)
            BY <2>1, <3>3, <1>2 DEF GateAssumption, L!ReadEvidence, L!Reads, L!TypeOK, L!Readings,
                                    L!Files, QuietInv
        <3>. QED
            BY <3>1, <3>2, <3>3
    <2>. QED
        BY <1>1, <1>2, <2>1 DEF QuietInv, L!world, L!Readers
<1>. QED
    BY <1>3, <1>4, <1>5, <1>6, <1>7

\* A process that moves on without a reading: it starts a reading, ends one, or
\* takes or uses a unit.
LEMMA MoveStep ==
    ASSUME GateAssumption, GateInv,
           \/ L!IssueStart \/ L!Issue \/ L!ClockMoves
           \/ \E r \in L!Readers : L!Block(r) \/ L!Again(r)
           \/ \E c \in Callers : L!CallStep(c)
    PROVE  GateInv'
<1> USE DEF GateInv
<1>1. ASSUME NEW r \in L!Readers, NEW step \in L!Steps, L!StartReading(r, step)
      PROVE  /\ read' \in [L!Readers -> L!Readings] /\ read'[r].at = 0
             /\ \A q \in L!Readers : q # r => read'[q] = read[q]
    <2> DEFINE x == [read[r] EXCEPT !.at = 0]
    <2>0. read \in [L!Readers -> L!Readings] /\ read[r] \in L!Readings /\ 0 \in 0..(N + 2)
        BY DEF GateAssumption, L!TypeOK
    <2>1. x \in L!Readings /\ x.at = 0
        BY <2>0 DEF L!Readings
    <2>2. read' = [read EXCEPT ![r] = x]
        BY <1>1 DEF L!StartReading
    <2> HIDE DEF x
    <2>. QED
        BY <2>0, <2>1, <2>2
<1>2. CASE L!ClockMoves
    <2>1. UNCHANGED <<L!world, permit, used, pc, read, quiet, posts>> /\ expired' = ~expired
        BY <1>2 DEF L!ClockMoves
    <2>2. UnitsInv'
        BY <2>1, UnitsKept DEF Holding
    <2>. QED
        BY <2>1, <2>2 DEF L!world, L!TypeOK, PermitInv, Tested, L!Reading, QuietInv,
                          L!SentFromTestedSource
<1>3. CASE L!Issue
    <2>1. /\ Owner \in L!Readers /\ pc[Owner] = "issue"
          /\ permit' = [head |-> read[Owner].head, tree |-> read[Owner].tree, evidence |-> read[Owner].evidence]
          /\ pc' = [pc EXCEPT ![Owner] = "done"]
          /\ UNCHANGED <<head, tree, evidence, accepted, expired, used, read, quiet, posts>>
        BY <1>3 DEF L!Issue, L!To, L!world, L!Readers
    <2>2. Tested(read[Owner].evidence, read[Owner].head, read[Owner].tree)
        BY <1>3, <2>1 DEF L!Issue, L!Complete, PermitInv, L!Reading
    <2>3. permit' \in L!Permits /\ permit' # None
        BY <2>1 DEF GateAssumption, L!Permits, L!TypeOK, L!Readings
    <2>4. L!TypeOK'
        BY <2>1, <2>3 DEF L!TypeOK, L!Steps
    <2>5. UnitsInv'
        BY <2>1, UnitsKept DEF Holding, Holds, L!TypeOK
    <2>6. PermitInv'
        BY <2>1, <2>2, <2>3 DEF PermitInv, Tested, L!Reading, L!TypeOK
    <2>7. QuietInv'
        BY <2>1 DEF QuietInv, L!TypeOK, L!Readers
    <2>8. L!SentFromTestedSource'
        BY <2>1 DEF L!SentFromTestedSource, PermitInv, Holds, L!TypeOK, L!Readers
    <2>. QED
        BY <2>4, <2>5, <2>6, <2>7, <2>8
<1>4. ASSUME NEW r \in L!Readers, NEW step \in L!Steps \ Holds,
             L!To(r, step), UNCHANGED <<permit, used, quiet, posts>>,
             \/ read' = read /\ step \notin {"issue", "require", "authorize"}
             \/ L!StartReading(r, step),
             step = "issue" => permit = None,
             step \in {"require", "key", "authorize", "consume"} => permit # None
      PROVE  GateInv'
    <2>1. pc' = [pc EXCEPT ![r] = step] /\ UNCHANGED <<head, tree, evidence, accepted, expired>>
        BY <1>4 DEF L!To, L!world
    <2>2. /\ read' \in [L!Readers -> L!Readings]
          /\ \A q \in L!Readers : q # r => read'[q] = read[q]
          /\ L!Reading(r)' => read'[r].at = 0
        BY <1>1, <1>4, <2>1 DEF L!TypeOK, L!Reading, Holds
    <2>3. L!TypeOK'
        BY <1>4, <2>1, <2>2 DEF L!TypeOK
    <2>4. UnitsInv'
        BY <1>4, <2>1, UnitsKept DEF Holding, L!TypeOK
    <2>5. PermitInv'
        BY <1>4, <2>1, <2>2 DEF PermitInv, Tested, L!Reading, L!TypeOK, Holds, GateAssumption,
                                L!Readers
    <2>6. QuietInv'
        BY <1>4, <2>1, <2>2 DEF QuietInv, L!TypeOK, Holds, L!Readers
    <2>7. L!SentFromTestedSource'
        BY <1>4, <2>1 DEF L!SentFromTestedSource, L!TypeOK, Holds, L!Readers
    <2>. QED
        BY <2>3, <2>4, <2>5, <2>6, <2>7
<1>5. CASE L!IssueStart
    BY <1>4, <1>5 DEF L!IssueStart, L!StartReading, L!Steps, Holds, L!Readers
<1>6. ASSUME NEW r \in L!Readers, L!Block(r) \/ L!Again(r) PROVE GateInv'
    BY <1>4, <1>6 DEF L!Block, L!Again, L!Steps, Holds
<1>7. ASSUME NEW c \in Callers, L!Require(c) \/ L!Required(c) \/ L!Authorize(c) \/ L!Validate(c) PROVE GateInv'
    <2>1. c \in L!Readers /\ permit # None
        BY <1>7 DEF L!Readers, L!Require, L!Required, L!Authorize, L!Validate, PermitInv
    <2>2. CASE L!Require(c)
        BY <1>4, <2>1, <2>2 DEF L!Require, L!StartReading, L!Steps, Holds
    <2>3. CASE L!Required(c)
        BY <1>4, <2>1, <2>3 DEF L!Required, L!Steps, Holds
    <2>4. CASE L!Authorize(c)
        BY <1>4, <2>1, <2>4 DEF L!Authorize, L!StartReading, L!Steps, Holds
    <2>5. CASE L!Validate(c)
        BY <1>4, <2>1, <2>5 DEF L!Validate, L!Steps, Holds
    <2>. QED
        BY <1>7, <2>2, <2>3, <2>4, <2>5
<1>8. ASSUME NEW c \in Callers, L!Consume(c) PROVE GateInv'
    <2>1. /\ c \in L!Readers /\ pc[c] = "consume" /\ pc' = [pc EXCEPT ![c] = "authorized"]
          /\ used < MaxCalls /\ used' = used + 1
          /\ UNCHANGED <<head, tree, evidence, accepted, expired, permit, read, quiet, posts>>
        BY <1>8 DEF L!Consume, L!To, L!world, L!Readers
    <2>2. L!TypeOK'
        BY <2>1 DEF L!TypeOK, L!Steps, GateAssumption
    <2>3. UnitsInv'
        BY <1>8, UnitsTaken
    <2>4. PermitInv'
        BY <2>1 DEF PermitInv, Tested, L!Reading, L!TypeOK, Holds, L!Readers
    <2>. QED
        BY <2>1, <2>2, <2>3, <2>4 DEF QuietInv, L!SentFromTestedSource, L!TypeOK, L!Readers
<1>9. ASSUME NEW c \in Callers, L!Transport(c) PROVE GateInv'
    <2>1. /\ c \in L!Readers /\ pc[c] = "authorized" /\ pc' = [pc EXCEPT ![c] = "transport"]
          /\ quiet' = [quiet EXCEPT ![c] = TRUE]
          /\ UNCHANGED <<head, tree, evidence, accepted, expired, permit, used, posts>>
        BY <1>9 DEF L!Transport, L!StartReading, L!To, L!world, L!Readers
    <2>2. /\ read' \in [L!Readers -> L!Readings] /\ read'[c].at = 0
          /\ \A q \in L!Readers : q # c => read'[q] = read[q]
        BY <1>1, <1>9, <2>1 DEF L!Transport, L!Steps
    <2>3. L!TypeOK'
        BY <2>1, <2>2 DEF L!TypeOK, L!Steps
    <2>4. UnitsInv'
        BY <2>1, UnitsKept DEF Holding, Holds, L!TypeOK
    <2>5. PermitInv'
        BY <2>1, <2>2 DEF PermitInv, Tested, L!Reading, L!TypeOK, Holds, GateAssumption, L!Readers
    <2>6. QuietInv'
        BY <2>1, <2>2 DEF QuietInv, L!TypeOK, L!Files, GateAssumption, L!Readers
    <2>7. L!SentFromTestedSource'
        BY <2>1 DEF L!SentFromTestedSource, L!TypeOK, L!Readers
    <2>. QED
        BY <2>3, <2>4, <2>5, <2>6, <2>7
<1>10. ASSUME NEW c \in Callers, L!Consumed(c) PROVE GateInv'
    <2>1. /\ c \in L!Readers /\ pc[c] = "transport" /\ pc' = [pc EXCEPT ![c] = "send"]
          /\ read[c].at = N + 2 /\ L!Matches(c)
          /\ UNCHANGED <<head, tree, evidence, accepted, expired, permit, used, read, quiet, posts>>
        BY <1>10 DEF L!Consumed, L!Complete, L!To, L!world, L!Readers
    <2>2. L!TypeOK'
        BY <2>1 DEF L!TypeOK, L!Steps
    <2>3. UnitsInv'
        BY <2>1, UnitsKept DEF Holding, Holds, L!TypeOK
    <2>4. PermitInv' /\ permit # None
        BY <2>1 DEF PermitInv, Tested, L!Reading, L!TypeOK, Holds, L!Readers
    <2>5. QuietInv'
        BY <2>1 DEF QuietInv, L!TypeOK, L!Readers
    <2>6. quiet[c] => head = permit.head /\ tree = permit.tree /\ evidence = permit.evidence
        <3>1. SUFFICES ASSUME quiet[c] PROVE head = permit.head /\ tree = permit.tree /\ evidence = permit.evidence
            OBVIOUS
        <3>2. /\ read[c].head = head /\ read[c].evidence = evidence
              /\ \A f \in L!Files : read[c].tree[f] = tree[f]
            BY <2>1, <3>1 DEF QuietInv, L!Files, GateAssumption
        <3>3. tree \in [L!Files -> Contents] /\ read[c].tree \in [L!Files -> Contents]
            BY <2>1 DEF L!TypeOK, L!Readings, L!Trees
        <3>. QED
            BY <2>1, <3>2, <3>3 DEF L!Matches
    <2>7. L!SentFromTestedSource'
        BY <2>1, <2>4, <2>6 DEF L!SentFromTestedSource, PermitInv, Tested, L!TypeOK, L!Readers
    <2>. QED
        BY <2>2, <2>3, <2>4, <2>5, <2>7
<1>11. ASSUME NEW c \in Callers, L!Post(c) PROVE GateInv'
    <2>1. /\ c \in L!Readers /\ pc' = [pc EXCEPT ![c] = "done"] /\ posts' = posts + 1
          /\ UNCHANGED <<head, tree, evidence, accepted, expired, permit, used, read, quiet>>
        BY <1>11 DEF L!Post, L!To, L!world, L!Readers
    <2>2. L!TypeOK'
        BY <2>1 DEF L!TypeOK, L!Steps
    <2>3. UnitsInv'
        BY <1>11, UnitsSent
    <2>4. PermitInv'
        BY <2>1 DEF PermitInv, Tested, L!Reading, L!TypeOK, Holds, L!Readers
    <2>. QED
        BY <2>1, <2>2, <2>3, <2>4 DEF QuietInv, L!SentFromTestedSource, L!TypeOK, L!Readers
<1>. QED
    BY <1>2, <1>3, <1>5, <1>6, <1>7, <1>8, <1>9, <1>10, <1>11 DEF L!CallStep

\* The invariant holds when no permit has been issued.
LEMMA GateInit == GateAssumption /\ L!Init => GateInv
<1> SUFFICES ASSUME GateAssumption, L!Init PROVE GateInv
    OBVIOUS
<1>1. L!TypeOK
    <2>1. used \in 0..MaxCalls /\ posts \in Nat
        BY DEF L!Init, GateAssumption
    <2>2. pc \in [L!Readers -> L!Steps] /\ quiet \in [Callers -> BOOLEAN]
        BY DEF L!Init, L!Steps
    <2>. QED
        BY <2>1, <2>2 DEF L!Init, L!TypeOK
<1>2. UnitsInv
    <2>1. Holding = {}
        BY DEF L!Init, Holding, Holds, L!Readers
    <2>. QED
        BY <2>1, FS_EmptySet DEF L!Init, UnitsInv
<1>3. PermitInv
    BY DEF L!Init, PermitInv, L!Reading, Holds, L!Readers
<1>4. QuietInv /\ L!SentFromTestedSource
    BY DEF L!Init, QuietInv, L!SentFromTestedSource, L!Readers
<1>. QED
    BY <1>1, <1>2, <1>3, <1>4 DEF GateInv

\* Every step of the gate, its callers and the repository keeps it.
LEMMA GateNext == GateAssumption /\ GateInv /\ [L!Next]_(L!vars) => GateInv'
<1> SUFFICES ASSUME GateAssumption, GateInv, [L!Next]_(L!vars) PROVE GateInv'
    OBVIOUS
<1>1. CASE L!Next
    BY <1>1, WorldStep, ReadStep, MoveStep DEF L!Next
<1>2. CASE UNCHANGED L!vars
    <2>1. UnitsInv'
        BY <1>2, UnitsKept DEF L!vars, Holding, GateInv
    <2>. QED
        BY <1>2, <2>1 DEF L!vars, GateInv, L!TypeOK, PermitInv, Tested, L!Reading, QuietInv,
                          L!SentFromTestedSource
<1>. QED
    BY <1>1, <1>2

\* The invariant holds in every reachable state.
LEMMA GateCorrect == GateAssumption => (L!Spec => []GateInv)
<1> SUFFICES ASSUME GateAssumption PROVE L!Spec => []GateInv
    OBVIOUS
<1>1. L!Init => GateInv
    BY GateInit
<1>2. GateInv /\ [L!Next]_(L!vars) => GateInv'
    BY GateNext
<1>. QED
    BY <1>1, <1>2, PTL DEF L!Spec

-----------------------------------------------------------------------------
\* No more calls are sent than the permit allows, however many processes
\* present it, die and ask again (live_gate.py:565-599).
THEOREM PermitBoundsCalls == GateAssumption => (L!Spec => []L!SentWithinPermit)
<1> SUFFICES ASSUME GateAssumption PROVE L!Spec => []L!SentWithinPermit
    OBVIOUS
<1>1. GateInv => L!SentWithinPermit
    <2> SUFFICES ASSUME GateInv PROVE posts <= MaxCalls
        BY DEF L!SentWithinPermit
    <2>1. Cardinality(Holding) \in Nat
        BY HoldingFinite
    <2>. QED
        BY <2>1 DEF GateInv, UnitsInv, L!TypeOK, GateAssumption
<1>2. L!Spec => []GateInv
    BY GateCorrect
<1>. QED
    BY <1>1, <1>2, PTL

\* A call that nobody disturbs in the transport is sent from the source its
\* permit names, and that source was tested (live_gate.py:311-320, 673-685).
THEOREM CallsFromTestedSource == GateAssumption => (L!Spec => []L!SentFromTestedSource)
<1> SUFFICES ASSUME GateAssumption PROVE L!Spec => []L!SentFromTestedSource
    OBVIOUS
<1>1. GateInv => L!SentFromTestedSource
    BY DEF GateInv
<1>2. L!Spec => []GateInv
    BY GateCorrect
<1>. QED
    BY <1>1, <1>2, PTL
=============================================================================
