------------------------------ MODULE MCRelay ------------------------------
(***************************************************************************)
(* Relay with a sending device of user a and one or two devices of user b. *)
(***************************************************************************)
EXTENDS Relay, TLC

CONSTANTS a, b, sender, phone, laptop, m1, m2

(* One receiving device; the sender gets to send both messages.            *)
OneReceiver == {sender, phone}
OneReceiverOwner == sender :> a @@ phone :> b
OneReceiverQuota == sender :> 5 @@ phone :> 3

(* Two receiving devices and one message: the phone signs up or logs in,   *)
(* the laptop also fetches.                                                *)
TwoDevices == {sender, phone, laptop}
TwoDevicesOwner == sender :> a @@ phone :> b @@ laptop :> b
TwoDevicesQuota == sender :> 3 @@ phone :> 2 @@ laptop :> 3

FromSender(S) == [m \in S |-> sender]
ToB(S) == [m \in S |-> b]
OneMessageFrom == FromSender({m1})
OneMessageTo == ToB({m1})
TwoMessagesFrom == FromSender({m1, m2})
TwoMessagesTo == ToB({m1, m2})

(* The receiver does no more than sign up.                                 *)
SignupQuota == sender :> 4 @@ phone :> 2

(* One device on its own.                                                  *)
Alone == {phone}
AloneOwner == phone :> b
AloneQuota == phone :> 2
NoMessages == <<>>
=============================================================================
