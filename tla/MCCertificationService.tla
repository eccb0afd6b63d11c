------------------------ MODULE MCCertificationService ------------------------
(***************************************************************************)
(* Instances of CertificationService for TLC: a key that is repeated as    *)
(* it was, with another body and with another expected generation, and a   *)
(* second key that competes for the same generation.                       *)
(***************************************************************************)
EXTENDS CertificationService

Payload(key, body, exp) == [key |-> key, body |-> body, exp |-> exp]

MCPayloads ==
  { Payload("k1", "a", 0), Payload("k1", "b", 0), Payload("k1", "a", 1),
    Payload("k2", "a", 0), Payload("k2", "a", 1) }

\* One key, one competing key.
MCFewPayloads == { Payload("k1", "a", 0), Payload("k1", "a", 1), Payload("k2", "a", 0) }
=============================================================================
