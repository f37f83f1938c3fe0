---------------------------- MODULE MCValidation ----------------------------
(* Validation of a name and a mail address the server knows about; the mail *)
(* address must be given when the box is ticked.                            *)
EXTENDS Validation

CONSTANTS name, mail, box

MailOnBox == [f \in {name, mail, box} |-> IF f = mail THEN box ELSE None]
=============================================================================
