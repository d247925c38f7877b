------------------------------- MODULE Office -------------------------------
(***************************************************************************)
(* The HR side and the back office of Crossbill, ten parts side by side.   *)
(* Each keeps its documents to itself: what a part needs of another is in  *)
(* its module (Attendance sees the employee leave, HrLetters and Payroll   *)
(* copy names, Pricing reads the profile and the client).  Handlers of     *)
(* different parts therefore cannot disturb one another, and a behaviour   *)
(* here keeps to one part, chosen at the start: every interleaving of two  *)
(* parts is, for either of them, one of its own with stutters.             *)
(***************************************************************************)
EXTENDS Employment, Attendance, Payroll, HrLetters,
        Sessions, EInvoicing, AadhaarGate, Contracts, FircFiles, Pricing

VARIABLE desk

Desks == {"employment", "attendance", "payroll", "letters",
          "sessions", "einvoicing", "aadhaar", "contracts", "firc", "pricing"}

HrVars == <<hrVars, dayVars, payVars, letterVars>>
BackVars == <<authVars, irpVars, aadhaarVars, contractVars, fircVars>>
officeVars == <<desk, HrVars, BackVars, pricingVars>>

OfficeInit ==
  /\ desk \in Desks
  /\ EmploymentInit /\ AttendanceInit /\ PayrollInit /\ LetterInit
  /\ SessionsInit /\ EInvoicingInit /\ AadhaarInit /\ ContractsInit /\ FircInit
  /\ PricingInit
  /\ desk # "pricing" => seller = None /\ client = [type |-> "foreign", state |-> None]

HrNext ==
  \/ desk = "employment" /\ EmploymentNext /\ UNCHANGED <<dayVars, payVars, letterVars>>
  \/ desk = "attendance" /\ AttendanceNext /\ UNCHANGED <<hrVars, payVars, letterVars>>
  \/ desk = "payroll"    /\ PayrollNext    /\ UNCHANGED <<hrVars, dayVars, letterVars>>
  \/ desk = "letters"    /\ LetterNext     /\ UNCHANGED <<hrVars, dayVars, payVars>>

BackNext ==
  \/ desk = "sessions"   /\ SessionsNext   /\ UNCHANGED <<irpVars, aadhaarVars, contractVars, fircVars>>
  \/ desk = "einvoicing" /\ EInvoicingNext /\ UNCHANGED <<authVars, aadhaarVars, contractVars, fircVars>>
  \/ desk = "aadhaar"    /\ AadhaarNext    /\ UNCHANGED <<authVars, irpVars, contractVars, fircVars>>
  \/ desk = "contracts"  /\ ContractsNext  /\ UNCHANGED <<authVars, irpVars, aadhaarVars, fircVars>>
  \/ desk = "firc"       /\ FircNext       /\ UNCHANGED <<authVars, irpVars, aadhaarVars, contractVars>>

OfficeNext ==
  /\ UNCHANGED desk
  /\ \/ HrNext /\ UNCHANGED <<BackVars, pricingVars>>
     \/ BackNext /\ UNCHANGED <<HrVars, pricingVars>>
     \/ desk = "pricing" /\ PricingNext /\ UNCHANGED <<HrVars, BackVars>>

OfficeSpec == OfficeInit /\ [][OfficeNext]_officeVars
---------------------------------------------------------------------------
\* Every variable of the parts keeps its type: a status outside its schema's
\* enum, or a counter past its bound, would show here.
OfficeTypeOK ==
  CASE desk = "employment" -> EmploymentTypeOK
    [] desk = "attendance" -> AttendanceTypeOK
    [] desk = "payroll"    -> PayrollTypeOK
    [] desk = "letters"    -> LetterTypeOK
    [] desk = "sessions"   -> SessionsTypeOK
    [] desk = "einvoicing" -> EInvoicingTypeOK
    [] desk = "aadhaar"    -> AadhaarTypeOK
    [] desk = "contracts"  -> ContractsTypeOK
    [] desk = "firc"       -> FircTypeOK
    [] desk = "pricing"    -> PricingTypeOK
===========================================================================
