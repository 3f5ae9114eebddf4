--------------------------------- MODULE Mail ---------------------------------
(***************************************************************************)
(* core/runtime/email.py: EmailSender.send for one EmailMessage, which is  *)
(* sent again when the application retries, with SMTP as a dialogue of     *)
(* several steps and the other providers as the placeholders they are.     *)
(***************************************************************************)
EXTENDS Integers

CONSTANTS
    MaxMails        \* bound: calls of send

VARIABLES
    configured, \* providers added
    preview,    \* _preview_mode
    layers,     \* how often the body of the message was rendered, or Lost
    sentMark,   \* message.metadata['sent']
    dialogue,   \* "none", or the SMTP step to be made next
    mails,      \* calls of send
    delivered,  \* history: times the SMTP server accepted the message
    reported,   \* history: successes reported by SMTP
    doubtful    \* history: failures reported after the server accepted

mailVars == <<configured, preview, layers, sentMark, dialogue,
              mails, delivered, reported, doubtful>>

Others == {"mailgun", "sendgrid", "ses"}

\* The body is the literal text {{body}}.
Lost == -1

\* A fresh EmailMessage: its own body, empty metadata.
NewMessage == layers = 0 /\ sentMark = FALSE

MailInit ==
    /\ configured \in SUBSET {"smtp", "ses"}
    /\ NewMessage
    /\ preview = FALSE /\ dialogue = "none"
    /\ mails = 0 /\ delivered = 0 /\ reported = 0 /\ doubtful = 0

AddProvider(p) ==
    /\ dialogue = "none"
    /\ configured' = configured \cup {p}
    /\ UNCHANGED <<preview, layers, sentMark, dialogue, mails, delivered, reported, doubtful>>

EnablePreview(on) ==
    /\ dialogue = "none"
    /\ preview' = on
    /\ UNCHANGED <<configured, layers, sentMark, dialogue, mails, delivered, reported, doubtful>>

\* EmailRenderer.render: the template is wrapped around the body, or there is
\* no such file, and the default "{{body}}" is returned as it is, because
\* only "{{ body }}" is a placeholder.
Rendered == {IF layers = Lost THEN Lost ELSE layers + 1, Lost}

\* send, up to the provider: with a template the body of the message itself
\* is replaced, so that a second call renders what the first has rendered.
Render ==
    /\ dialogue = "none" /\ mails < MaxMails
    /\ mails' = mails + 1
    /\ layers' \in {layers} \cup Rendered
    /\ UNCHANGED <<configured, preview, delivered, doubtful>>

\* Preview mode, a provider that was not added, and the placeholders: all
\* of them end at once, only the placeholders mark the message.
SendElsewhere(p) ==
    /\ Render
    /\ preview \/ p # "smtp" \/ p \notin configured
    /\ sentMark' = (sentMark \/ (~preview /\ p \in configured))
    /\ UNCHANGED <<dialogue, reported>>

SendSmtp ==
    /\ Render
    /\ ~preview /\ "smtp" \in configured
    /\ dialogue' = "connect"
    /\ UNCHANGED <<sentMark, reported>>

\* An attachment cannot be read: the exception passes through send.
AttachmentFails ==
    /\ dialogue = "connect"
    /\ dialogue' = "none"
    /\ UNCHANGED <<configured, preview, layers, sentMark, mails, delivered, reported, doubtful>>

\* SMTP, starttls and login; send_message; quit.
SmtpConnects ==
    /\ dialogue = "connect"
    /\ dialogue' = "message"
    /\ UNCHANGED <<configured, preview, layers, sentMark, mails, delivered, reported, doubtful>>

SmtpAccepts ==
    /\ dialogue = "message"
    /\ dialogue' = "quit"
    /\ delivered' = delivered + 1
    /\ UNCHANGED <<configured, preview, layers, sentMark, mails, reported, doubtful>>

SmtpQuits ==
    /\ dialogue = "quit"
    /\ dialogue' = "none"
    /\ sentMark' = TRUE
    /\ reported' = reported + 1
    /\ UNCHANGED <<configured, preview, layers, mails, delivered, doubtful>>

\* Any step fails: send reports the failure, and marks the message sent.
Failure(mark, success) ==
    /\ dialogue # "none"
    /\ dialogue' = "none"
    /\ sentMark' = mark
    /\ doubtful' = IF dialogue = "quit" THEN doubtful + 1 ELSE doubtful
    /\ reported' = IF success THEN reported + 1 ELSE reported
    /\ UNCHANGED <<configured, preview, layers, mails, delivered>>

SmtpFailsSilently == Failure(TRUE, TRUE)

SmtpFails == Failure(TRUE, FALSE)

MailNext ==
    \/ \E p \in Others \cup {"smtp"} : AddProvider(p) \/ SendElsewhere(p)
    \/ \E on \in BOOLEAN : EnablePreview(on)
    \/ SendSmtp \/ AttachmentFails \/ SmtpConnects \/ SmtpAccepts
    \/ SmtpQuits \/ SmtpFails

-----------------------------------------------------------------------------
(* Properties *)

\* Between calls SMTP has reported exactly the deliveries, except those
\* whose quit failed; a message that was delivered, by however many retries,
\* is marked sent; and it is never rendered more often than it was sent.
MailAccounted ==
    dialogue = "none" =>
        /\ delivered = reported + doubtful
        /\ delivered > 0 => sentMark
        /\ layers <= mails

\* The inductive invariant: between acceptance and quit one delivery is
\* neither reported nor doubtful, and the message not yet marked.
MailIInv ==
    /\ mails \in Nat /\ delivered \in Nat /\ reported \in Nat /\ doubtful \in Nat
    /\ layers \in Int /\ layers <= mails
    /\ sentMark \in BOOLEAN
    /\ delivered = reported + doubtful + IF dialogue = "quit" THEN 1 ELSE 0
    /\ delivered > 0 => sentMark \/ dialogue = "quit"
=============================================================================
