------------------------------ MODULE Pairing ------------------------------
(***************************************************************************)
(* Adding a phone to a desktop: the one-time code on the screen            *)
(* (pairingcodes.py), the parked request of the wire handler (sync.py) and *)
(* the verdict of the human at the desktop (api.py, node.py).              *)
(*                                                                         *)
(* The wire handlers and the API are coroutines of one event loop; each    *)
(* action is what one of them does between two awaits.  Codes are numbered *)
(* as they are minted, 0 is none; a code expires by itself.                *)
(***************************************************************************)
EXTENDS Naturals, FiniteSets

CONSTANTS
  Phone,      \* devices that ask to be added, each with a connection of its own
  MaxCodes,   \* how many codes are minted
  Budget      \* pair requests let through in a minute (20)

NoPhone == "nobody"

ASSUME PairAssumption ==
  /\ MaxCodes \in Nat /\ Budget \in Nat
  /\ IsFiniteSet(Phone) /\ NoPhone \notin Phone

VARIABLES
  active,    \* the code that can be redeemed, and the time left for it
  codes,     \* how many were minted
  scanned,   \* the code each phone holds
  parked,    \* node.pending_pair
  handler,   \* where the wire handler of each phone is
  answer,    \* what each phone was told last
  enrolled,  \* the requests, by the code they redeemed, that enrolled their device
  redeemed,  \* the code that the last request of each phone redeemed
  attempts   \* requests counted by the rate limit

pairVars == <<active, codes, scanned, parked, handler, answer, enrolled, redeemed,
              attempts>>
----------------------------------------------------------------------------
PairCode == 0..MaxCodes
Verdict == {"none", "accept", "deny"}

\* expires_at is an instant; what matters is whether it has passed.
CodeState == [code : PairCode, live : BOOLEAN]
NoCode == [code |-> 0, live |-> FALSE]

NoRequest == [phone |-> NoPhone, verdict |-> "none"]
Request == [phone : Phone \union {NoPhone}, verdict : Verdict]

HandlerState == {"idle", "waiting", "expiring", "replying"}
Answer == {"none", "expired", "denied", "package"}

PairInit ==
  /\ active = NoCode /\ codes = 0 /\ scanned = [p \in Phone |-> 0]
  /\ parked = NoRequest /\ handler = [p \in Phone |-> "idle"]
  /\ answer = [p \in Phone |-> "none"]
  /\ enrolled = {} /\ redeemed = [p \in Phone |-> 0] /\ attempts = 0
----------------------------------------------------------------------------
\* PairingCodes.verify_and_consume(): once, for the active code and in time.
Redeems(code) == active.code # 0 /\ active.live /\ code = active.code

Undecided == parked # NoRequest /\ parked.verdict = "none"

\* A plausible defect: whatever ceremony is parked is denied, decided or not.
DenyParked == IF parked = NoRequest THEN NoRequest ELSE [parked EXCEPT !.verdict = "deny"]

\* begin resolves a ceremony that nobody decided as denied.
ReleaseStale == IF Undecided THEN [parked EXCEPT !.verdict = "deny"] ELSE parked

\* POST /api/pair/begin.
PairBegin ==
  /\ codes < MaxCodes /\ codes' = codes + 1
  /\ parked' = ReleaseStale
  /\ active' = [code |-> codes + 1, live |-> TRUE]
  /\ UNCHANGED <<scanned, handler, answer, enrolled, redeemed, attempts>>

\* A phone scans the code on the screen, which may be gone by the time it asks.
Scan(p) ==
  /\ handler[p] = "idle" /\ active.code # 0 /\ scanned[p] # active.code
  /\ scanned' = [scanned EXCEPT ![p] = active.code]
  /\ UNCHANGED <<active, codes, parked, handler, answer, enrolled, redeemed,
                 attempts>>

\* The time to live runs out.
CodeExpires ==
  /\ active.live /\ active' = [active EXCEPT !.live = FALSE]
  /\ UNCHANGED <<codes, scanned, parked, handler, answer, enrolled, redeemed,
                 attempts>>

Told(p, a) == answer' = [answer EXCEPT ![p] = a]
HandlerAt(p, h) == handler' = [handler EXCEPT ![p] = h]

\* _handle_pair_request(): refused before anything is spent, at the cost of an attempt,
\* or parked with the code redeemed.
Refused(p) ==
  /\ \/ active.code = 0 /\ UNCHANGED attempts
     \/ active.code # 0 /\ attempts = Budget /\ UNCHANGED attempts
     \/ /\ active.code # 0 /\ attempts < Budget /\ attempts' = attempts + 1
        /\ parked # NoRequest \/ ~Redeems(scanned[p])
  /\ Told(p, "expired") /\ redeemed' = [redeemed EXCEPT ![p] = 0]
  /\ UNCHANGED <<active, parked, handler>>

Parked(p) ==
  /\ active.code # 0 /\ attempts < Budget /\ attempts' = attempts + 1
  /\ parked = NoRequest /\ Redeems(scanned[p])
  /\ active' = NoCode
  /\ parked' = [phone |-> p, verdict |-> "none"] /\ HandlerAt(p, "waiting")
  /\ redeemed' = [redeemed EXCEPT ![p] = active.code]
  /\ Told(p, "none")

HandlePairRequest(p) ==
  /\ handler[p] = "idle" /\ scanned[p] # 0
  /\ Refused(p) \/ Parked(p)
  /\ UNCHANGED <<codes, scanned, enrolled>>

\* The minute of the rate limit is over.
MinutePasses ==
  /\ attempts > 0 /\ attempts' = 0
  /\ UNCHANGED <<active, codes, scanned, parked, handler, answer, enrolled,
                 redeemed>>

\* The wait ends: by the event, or by the time left to the code when it was redeemed.
\* The reply is written before the request is unparked.
WakeUp(p) ==
  /\ handler[p] = "waiting"
  /\ \/ /\ parked.verdict # "none" /\ HandlerAt(p, "replying")
        /\ Told(p, IF parked.verdict = "accept" THEN "package" ELSE "denied")
     \/ parked.verdict = "none" /\ HandlerAt(p, "expiring") /\ Told(p, "expired")
  /\ UNCHANGED <<active, codes, scanned, parked, enrolled, redeemed, attempts>>

\* The connection is gone before the reply is out.
PhoneGone(p) ==
  /\ handler[p] \in {"replying", "expiring"} /\ answer[p] # "none" /\ Told(p, "none")
  /\ UNCHANGED <<active, codes, scanned, parked, handler, enrolled, redeemed,
                 attempts>>

\* finally: the request is unparked, whatever happened.
Unpark(p) ==
  /\ handler[p] \in {"replying", "expiring"} /\ HandlerAt(p, "idle")
  /\ parked' = NoRequest
  /\ UNCHANGED <<active, codes, scanned, answer, enrolled, redeemed, attempts>>

\* POST /api/pair/accept, for the phone that the page showed when the human looked.
\* accept_pairing() enrolls the device before the verdict is filed.
Decide(shown, accept) ==
  /\ Undecided /\ shown = parked.phone
  /\ parked' = [parked EXCEPT !.verdict = IF accept THEN "accept" ELSE "deny"]
  /\ enrolled' = enrolled \union (IF accept THEN {redeemed[shown]} ELSE {})
  /\ UNCHANGED <<active, codes, scanned, handler, answer, redeemed, attempts>>

PairNext ==
  \/ PairBegin \/ CodeExpires \/ MinutePasses
  \/ \E p \in Phone :
       \/ Scan(p) \/ HandlePairRequest(p) \/ WakeUp(p) \/ PhoneGone(p) \/ Unpark(p)
       \/ \E accept \in BOOLEAN : Decide(p, accept)

PairSpec == PairInit /\ [][PairNext]_pairVars
----------------------------------------------------------------------------
PairTypeOK ==
  /\ active \in CodeState /\ codes \in PairCode /\ scanned \in [Phone -> PairCode]
  /\ parked \in Request /\ handler \in [Phone -> HandlerState]
  /\ answer \in [Phone -> Answer]
  /\ enrolled \subseteq PairCode
  /\ redeemed \in [Phone -> PairCode] /\ attempts \in 0..Budget

\* One ceremony at a time, and it ends as its phone was told: the parked request is
\* that of the one handler that is waiting or replying; a phone told that it was denied
\* was not enrolled by that request, one that got a package was; and no code was
\* redeemed by two phones (api.py:687-691, 716-722, sync.py:457-466).
OneCeremony ==
  /\ \A p \in Phone : handler[p] # "idle" => parked.phone = p
  /\ parked # NoRequest => handler[parked.phone] # "idle"
CodesOnce == \A p, q \in Phone : (redeemed[p] = redeemed[q] /\ redeemed[p] # 0) => p = q
PairingIsHonest ==
  /\ OneCeremony /\ CodesOnce
  /\ \A p \in Phone : /\ answer[p] = "package" => redeemed[p] \in enrolled
                      /\ answer[p] = "denied" => redeemed[p] \notin enrolled

\* A phone that was told the code expired was not enrolled.  The code does not ensure it:
\* the verdict may come while the reply of the timed-out handler is being written.
ExpiredIsNotEnrolled == \A p \in Phone : answer[p] = "expired" => redeemed[p] \notin enrolled
=============================================================================
