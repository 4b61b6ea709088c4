------------------------------- MODULE MCOffice -------------------------------
(***************************************************************************)
(* Small instances of what surrounds the sale: the figures, the sign-in,   *)
(* the backups, the carts, the till and the nightly jobs.  They meet only  *)
(* in rows that each of them models for itself, so a behaviour shows one of*)
(* them (`focus`), and the instance is the sum of the six.                 *)
(***************************************************************************)
EXTENDS Figures, SignIn, Backups, Drafts, Checkout, Nightly

VARIABLE focus

-----------------------------------------------------------------------------
(* Inputs *)

MCDraft ==
    <<[price |-> 2, units |-> 2, currency |-> "USD", client |-> TRUE],
      [price |-> 1, units |-> 1, currency |-> "USD", client |-> TRUE],
      [price |-> 3, units |-> 1, currency |-> "KGS", client |-> FALSE]>>

Form(amount, cur, excess, changeIn, override, adjust, isOwner, ack) ==
    [amount |-> amount, cur |-> cur, excess |-> excess, changeIn |-> changeIn,
     override |-> override, adjust |-> adjust, owner |-> isOwner, ack |-> ack]

MCForms ==
    {Form(4, "KGS", "none", "KGS", 0, 0, FALSE, FALSE),
     Form(9, "KGS", "change", "KGS", 0, 0, FALSE, TRUE),
     Form(9, "KGS", "change", "KGS", 0, 6, FALSE, TRUE),
     Form(4, "USD", "none", "KGS", 0, 0, FALSE, FALSE),
     Form(6, "USD", "change", "other", 0, 0, FALSE, TRUE),
     Form(4, "USD", "credit", "KGS", 7, 0, TRUE, TRUE),
     Form(9, "USD", "change", "KGS", 7, 0, TRUE, TRUE),
     Form(4, "KGS", "none", "KGS", 7, 0, TRUE, TRUE)}

MCJobList ==
    <<[time |-> 0, cmd |-> "backup_db"], [time |-> 2, cmd |-> "send_daily_report"],
      [time |-> 2, cmd |-> "send_security_digest"], [time |-> 2, cmd |-> "purge_security_events"]>>

-----------------------------------------------------------------------------
OfficeInit ==
    /\ BInit /\ SInit /\ KInit /\ DInit /\ TInit /\ NInit
    /\ focus \in {"figures", "sign-in", "backups", "carts", "till", "nightly"}
    /\ focus # "backups" => job = "service"
    /\ focus # "till" => till.currency = "KGS" /\ ~till.client /\ cached = 0

OfficeNext ==
    /\ focus' = focus
    /\ \/ focus = "figures" /\ BNext /\ UNCHANGED <<svars, kvars, dvars, cvars, nvars>>
       \/ focus = "sign-in" /\ SNext /\ UNCHANGED <<bvars, kvars, dvars, cvars, nvars>>
       \/ focus = "backups" /\ KNext /\ UNCHANGED <<bvars, svars, dvars, cvars, nvars>>
       \/ focus = "carts" /\ DNext /\ UNCHANGED <<bvars, svars, kvars, cvars, nvars>>
       \/ focus = "till" /\ TNext /\ UNCHANGED <<bvars, svars, kvars, dvars, nvars>>
       \/ focus = "nightly" /\ NNext /\ UNCHANGED <<bvars, svars, kvars, dvars, cvars>>

OfficeSpec == OfficeInit /\ [][OfficeNext]_<<bvars, svars, kvars, dvars, cvars, nvars, focus>>

-----------------------------------------------------------------------------
(* Each property, where its module is what a behaviour shows *)

\* The statements of clients fit the debts, their own parts and the payments.
OfficeStatements == focus = "figures" => StatementsHold

\* The dashboard, the reports and the pages tell the same money.
OfficeReports == focus = "figures" => ReportsAgree

\* The limits on signing in hold against what arrives at once.
OfficeSignIn == focus = "sign-in" => SignInHolds

\* Every day and week has a copy, and no copy is plain.
OfficeBackups == focus = "backups" => CopiesKept

\* Carts are made once, hold what was added, and are not removed when sold.
OfficeCarts == focus = "carts" => CartsAddUp

\* What the till showed and asked is what a payment records.
OfficeTill == focus = "till" => TillKeepsWord

\* The jobs of the night run once, or it is known why not.
OfficeNights == focus = "nightly" => JobsAccounted

=============================================================================
