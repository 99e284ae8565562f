-------------------------- MODULE MCOutreachEngine --------------------------
(***************************************************************************)
(* Campaigns for TLC: a nightly campaign and one for anomalies, on each    *)
(* kind of channel.                                                        *)
(***************************************************************************)
EXTENDS OutreachEngine, TLC

CONSTANTS nightly, hooked

\* The anomaly's campaign writes in-app notifications, the nightly one sends mail.
MailAndInApp == (nightly :> "plain") @@ (hooked :> "in_app")

\* The nightly campaign goes through a custom integration.
CustomAndMail == (nightly :> "custom") @@ (hooked :> "plain")

\* Only the anomaly's campaign, by mail.
HookedMail == hooked :> "plain"
=============================================================================
