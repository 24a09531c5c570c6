------------------------------ MODULE Airspace ------------------------------
(***************************************************************************)
(* The airspace program (programs/airspace).  A governor creates airspaces *)
(* and names their authorities.  Users enter an airspace with a permit: in *)
(* a restricted airspace it is given by the authority or by an issuer with *)
(* a licence, in an open one by anybody.                                   *)
(*                                                                         *)
(* Every instruction has the signer as its first parameter.  The account   *)
(* of an airspace, a licence or a permit exists if its key is in the       *)
(* domain of the variable that holds its kind.                             *)
(***************************************************************************)
EXTENDS Naturals, FiniteSets, AccountMaps

CONSTANTS
  Airspaces, Signers,
  Members,          \* signers that get licences, permits and margin accounts
  GOVERNOR_ID,      \* the governor that create_governor_id installs
  Nobody

ASSUME AirspaceAssumption ==
  /\ GOVERNOR_ID \in Signers /\ Nobody \notin Signers \cup Airspaces
  /\ Airspaces \cap Signers = {} /\ Members \subseteq Signers

VARIABLES
  governor,    \* GovernorId.governor
  airspaces,   \* authority and is_restricted of the airspaces
  issuers,     \* licences: airspace and issuer
  permits      \* issuer of each permit, by airspace and owner

airspaceVars == <<governor, airspaces, issuers, permits>>

InitAirspace ==
  /\ governor = Nobody
  /\ airspaces = << >> /\ issuers = {} /\ permits = << >>

\* s signs as the authority of the airspace
SignsFor(s, a) == a \in DOMAIN airspaces /\ airspaces[a].authority = s

-----------------------------------------------------------------------------
create_governor_id ==
  /\ governor' = IF governor = Nobody THEN GOVERNOR_ID ELSE governor
  /\ UNCHANGED <<airspaces, issuers, permits>>

set_governor(s, new_governor) ==
  /\ governor = s
  /\ governor' = new_governor
  /\ UNCHANGED <<airspaces, issuers, permits>>

airspace_create(s, a, is_restricted, authority) ==
  /\ governor = s
  /\ a \notin DOMAIN airspaces
  /\ airspaces' = Put(airspaces, a, [authority |-> authority, is_restricted |-> is_restricted])
  /\ UNCHANGED <<governor, issuers, permits>>

airspace_set_authority(s, a, new_authority) ==
  /\ SignsFor(s, a)
  /\ airspaces' = [airspaces EXCEPT ![a].authority = new_authority]
  /\ UNCHANGED <<governor, issuers, permits>>

\* The signer is not compared with the airspace's authority.
airspace_permit_issuer_create(s, a, issuer) ==
  /\ a \in DOMAIN airspaces
  /\ <<a, issuer>> \notin issuers
  /\ issuers' = issuers \cup {<<a, issuer>>}
  /\ UNCHANGED <<governor, airspaces, permits>>

airspace_permit_issuer_revoke(s, a, issuer) ==
  /\ SignsFor(s, a)
  /\ <<a, issuer>> \in issuers
  /\ issuers' = issuers \ {<<a, issuer>>}
  /\ UNCHANGED <<governor, airspaces, permits>>

MayIssue(s, a) ==
  airspaces[a].is_restricted /\ airspaces[a].authority # s => <<a, s>> \in issuers

airspace_permit_create(s, a, owner) ==
  /\ a \in DOMAIN airspaces
  /\ <<a, owner>> \notin DOMAIN permits
  /\ MayIssue(s, a)
  /\ permits' = Put(permits, <<a, owner>>, IF airspaces[a].authority = s THEN a ELSE s)
  /\ UNCHANGED <<governor, airspaces, issuers>>

\* Both of the handler's conditions have to hold: the signer is the authority or the
\* issuer, and the permit was given in a restricted airspace by an issuer that has lost
\* its licence.
airspace_permit_revoke(s, a, owner) ==
  /\ <<a, owner>> \in DOMAIN permits
  /\ s \in {airspaces[a].authority, permits[<<a, owner>>]}
  /\ airspaces[a].is_restricted
  /\ <<a, permits[<<a, owner>>]>> \notin issuers
  /\ permits[<<a, owner>>] # a
  /\ permits' = Drop(permits, <<a, owner>>)
  /\ UNCHANGED <<governor, airspaces, issuers>>

PermitNext ==
  \E s \in Signers, a \in Airspaces, owner \in Members :
    airspace_permit_create(s, a, owner) \/ airspace_permit_revoke(s, a, owner)

AuthorityNext == \E s, new \in Signers, a \in Airspaces : airspace_set_authority(s, a, new)

AirspaceNext ==
  \/ create_governor_id
  \/ \E s, new \in Signers : set_governor(s, new)
  \/ \E s, authority \in Signers, a \in Airspaces, restricted \in BOOLEAN :
       airspace_create(s, a, restricted, authority)
  \/ \E s \in Signers, a \in Airspaces, issuer \in Members :
       airspace_permit_issuer_create(s, a, issuer) \/ airspace_permit_issuer_revoke(s, a, issuer)
  \/ PermitNext
  \/ AuthorityNext

=============================================================================
