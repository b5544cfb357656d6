---------------------------- MODULE MCEnrolment ----------------------------
EXTENDS Enrolment

(* Names of different tenants that give one slug.                          *)
MCSlugBase == [t \in Tenant |-> "slug"]
=============================================================================
