------------------------------ MODULE MCFrontDesk ------------------------------
(* The parts of the web application that share no state, each a behaviour of *)
(* its own: the first state chooses one, and only that one takes steps.      *)
EXTENDS PhysicalRooms, Routes, Rates, Proposals, Tenancy, CalendarNotes, Billing, Accounts,
    Integers, TLC
CONSTANTS t1, g1, g2, ho, vr, e1, e2, e3, e4

VARIABLE part

-----------------------------------------------------------------------------
(* Values of the constants.                                                *)

MCTypes == <<t1>>
MCRoomFaults == [k \in RoomKinds |-> IF k = "count" THEN 2 ELSE 1]
MCCatalogs == {[hotel |-> 1, property |-> 0]}
MCEstate == <<2, 1>>
MCSelections == {<<[cell |-> g1, amount |-> n], [cell |-> g2, amount |-> n]>> : n \in Amounts}
MCScopes == {{g1, g2}, {g1}}
MCRooms == <<ho>>
MCPrincipals ==
    {Principal(e1, "manager", {}, {}), Principal(e2, "front_desk", {ho}, {vr}),
     Principal(e3, "housekeeping", {ho, vr}, {}), Principal(e4, "property_owner", {ho}, {vr})}
MCNights == {<<1, 3>>, <<3, 4>>}
MCWindows == {<<1, 3>>, <<3, 4>>}

-----------------------------------------------------------------------------
Parts == {"rooms", "accounts", "billing", "notes", "tenancy", "proposals", "desk"}
Takes(p) ==
    /\ part = p /\ part' = p
    /\ IF p = "rooms" THEN TRUE ELSE UNCHANGED roomVars
    /\ IF p = "accounts" THEN TRUE ELSE UNCHANGED accountVars
    /\ IF p = "billing" THEN TRUE ELSE UNCHANGED billingVars
    /\ IF p = "notes" THEN TRUE ELSE UNCHANGED noteVars
    /\ IF p = "tenancy" THEN TRUE ELSE UNCHANGED tenancyVars
    /\ IF p = "proposals" THEN TRUE ELSE UNCHANGED proposalVars
    /\ IF p = "desk" THEN TRUE ELSE UNCHANGED stayVars

Init ==
    /\ part \in Parts
    /\ RoomInit /\ AccountsInit /\ BillingInit /\ NotesInit
    /\ TenancyInit /\ ProposalsInit /\ StaysInit
    /\ part # "tenancy" => commercial
    /\ part # "proposals" => aiApply
Next ==
    \/ Takes("rooms") /\ RoomNext
    \/ Takes("accounts") /\ AccountsNext
    \/ Takes("billing") /\ BillingNext
    \/ Takes("notes") /\ NotesNext
    \/ Takes("tenancy") /\ TenancyNext
    \/ Takes("proposals") /\ ProposalsNext
    \/ Takes("desk") /\ StaysNext
Spec == Init /\ [][Next]_<<part, roomVars, accountVars, billingVars, noteVars, tenancyVars,
                         proposalVars, stayVars>>

-----------------------------------------------------------------------------
(* The property that relates pages and routes.                              *)

\* What is the same in every state is looked at in the first one.
PagesAgree ==
    part = "desk" =>
        /\ ScreensAgree /\ RoutesAgree
        /\ acts = 0 => OffersAreTaken /\ GuardsAgree
=============================================================================
