-------------------------------- MODULE Sms --------------------------------
(***************************************************************************)
(* The mock SMS channel (aids_mock/routes_sms.py): a mobile gets one       *)
(* message of a template in RATE_LIMIT_SECONDS.  send_sms() looks for a    *)
(* recent record before it inserts one, and no unique key guards the       *)
(* insert; the record becomes SENT in the same transaction.  The service   *)
(* reads its clock in parts of a second; create_time keeps whole seconds.  *)
(***************************************************************************)
EXTENDS Naturals

CONSTANTS
    Mobiles,        \* pairs of a mobile number and a template
    Sends,          \* requests; each is made once
    RateLimit,      \* RATE_LIMIT_SECONDS
    Steps,          \* steps of the clock in a second
    MaxSmsTime      \* bound on the clock

ASSUME SmsAssumption ==
    /\ RateLimit \in Nat \ {0}
    /\ Steps \in Nat \ {0}
    /\ MaxSmsTime \in Nat

VARIABLES
    smsNow,     \* the clock of the service and of its database
    send        \* send[r]: the request with its record, if it has one

smsVars == <<smsNow, send>>

NotSent == [at |-> "new"]

SmsInit ==
    /\ smsNow = 1
    /\ send = [r \in Sends |-> NotSent]

Stored(m) == {r \in Sends : send[r].at = "stored" /\ send[r].of = m}

\* CURRENT_TIMESTAMP of the row, which was inserted at time t.
CreateTime(t) == (t \div Steps) * Steps

\* Mutation: the comparison the wrong way round.
Recent_Older(m) ==
    \E r \in Stored(m) : CreateTime(send[r].time) + RateLimit * Steps <= smsNow

\* A committed record with create_time >= now - RATE_LIMIT_SECONDS.
Recent(m) ==
    \E r \in Stored(m) : CreateTime(send[r].time) + RateLimit * Steps >= smsNow

\* The mobile and the template are well formed, and no recent record is found.
Check(r, m) ==
    /\ send[r] = NotSent
    /\ ~Recent(m)
    /\ send' = [send EXCEPT ![r] = [at |-> "checked", of |-> m, began |-> smsNow]]
    /\ UNCHANGED smsNow

\* 10006, an unknown template, or a parameter the template lacks: no record.
Refuse(r) ==
    /\ send[r].at \in {"new", "checked"}
    /\ send' = [send EXCEPT ![r] = [at |-> "refused"]]
    /\ UNCHANGED smsNow

\* flush(): the row is inserted, and seen by its own transaction only.
Insert(r) ==
    /\ send[r].at = "checked"
    /\ send' = [send EXCEPT ![r] = [at |-> "inserted", of |-> send[r].of,
                                    began |-> send[r].began, time |-> smsNow]]
    /\ UNCHANGED smsNow

\* The transaction ends, and others see the record; or it is rolled back.
StoreSms(r) ==
    /\ send[r].at = "inserted"
    /\ \/ send' = [send EXCEPT ![r] = [at |-> "stored", of |-> send[r].of, time |-> send[r].time,
                                       began |-> send[r].began, ended |-> smsNow]]
       \/ send' = [send EXCEPT ![r] = [at |-> "refused"]]
    /\ UNCHANGED smsNow

SmsTick ==
    /\ smsNow < MaxSmsTime
    /\ smsNow' = smsNow + 1
    /\ UNCHANGED send

SmsNext ==
    \/ \E r \in Sends : \/ \E m \in Mobiles : Check(r, m)
                        \/ Refuse(r) \/ Insert(r) \/ StoreSms(r)
    \/ SmsTick

SmsSpec == SmsInit /\ [][SmsNext]_smsVars

-----------------------------------------------------------------------------
(* Properties *)

\* Two messages of a template reach a mobile within the window only if their
\* requests overlapped: one looked for a record before the other had committed
\* its own (routes_sms.py:64 accepts that).  The window is up to a second short,
\* for create_time keeps no fractions.
OneSmsPerWindow ==
    \A m \in Mobiles : \A a, b \in Stored(m) :
        send[a].ended < send[b].began => send[b].time + Steps > send[a].time + RateLimit * Steps
=============================================================================
