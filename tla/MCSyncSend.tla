----------------------------- MODULE MCSyncSend -----------------------------
(* Instances of SyncSend for TLC: calls made at the same time. *)
EXTENDS SyncSend

Op(w, kind) == [w |-> w, kind |-> kind]
\* One wallet sends and pays an invoice at the same time.
SendAndPay == {<<Op("a", "init_send_tx"), Op("a", "process_invoice_tx")>>}
=============================================================================
