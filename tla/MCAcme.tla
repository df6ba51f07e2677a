------------------------------- MODULE MCAcme -------------------------------
(* An AcmeClient and another ACME client at one server.                    *)
EXTENDS Acme
=============================================================================
