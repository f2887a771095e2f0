------------------------------ MODULE DeliveryMC ------------------------------
(***************************************************************************)
(* Small instances of Delivery for TLC.                                    *)
(***************************************************************************)
EXTENDS Delivery, TLC

CONSTANTS w1, w2, m1, m2, d1, d2, r1, r2

OneWorker == {w1}
TwoWorkers == {w1, w2}
NoMessage == {}
OneMessage == {m1}
TwoMessages == {m1, m2}
OneDelivery == {d1}
TwoDeliveries == {d1, d2}
OneRequest == {r1}
TwoRequests == {r1, r2}

OneWhatsApp == d1 :> "whatsapp"
EmailAndInApp == d1 :> "email" @@ d2 :> "in_app"

All == {"retry", "cancel", "callback", "leave"}

=============================================================================
