------------------------------ MODULE Extractor ------------------------------
(***************************************************************************)
(* What the functions of agent/extractor.py, with the adapters that call   *)
(* them, make of an answer of the LLM: one goal for each function.         *)
(*                                                                         *)
(* An answer has a form and a body.  Its form is what surrounds the JSON:  *)
(* nothing (bare), prose or a code block (wrapped), brackets around what   *)
(* is no JSON (torn), no brackets that match (prose: an answer cut off at  *)
(* max_tokens as well), no text at all (blank), or no text block (none).   *)
(* Its body is what the JSON says: what was asked, and truly; an object    *)
(* without the keys asked for, or saying that there is nothing (keyless);  *)
(* values no adapter can use (unlawful); a list of scalars; a scalar.      *)
(***************************************************************************)

Forms == {"bare", "wrapped", "torn", "prose", "blank", "none"}
Bodies == {"asked", "keyless", "unlawful", "list", "scalar"}
Replies == [form : Forms, body : Bodies]

Providers == {"anthropic", "bedrock", "openai"}

\* What an answer is worth: one as asked, one with text around it, another.
Qualities == {"exact", "wrapped", "odd"}
Quality(reply) == IF reply.body # "asked" \/ reply.form \notin {"bare", "wrapped"} THEN "odd"
                  ELSE IF reply.form = "bare" THEN "exact" ELSE "wrapped"

\* The worse of two.
Worse(a, b) == IF "odd" \in {a, b} THEN "odd"
               ELSE IF "wrapped" \in {a, b} THEN "wrapped" ELSE "exact"

\* The clients: no text block is an error with each of them, an empty text
\* only with OpenAI's.
ClientRaises(provider, reply) ==
    \/ reply.form = "none"
    \/ reply.form = "blank" /\ provider = "openai"

\* The brackets a goal's function looks for when the answer is no JSON; the
\* others look for none.
Brackets == [fields |-> "{}", otp |-> "", accounts |-> "[]", rows |-> "[]",
             link |-> "", next |-> "", balance |-> "{}"]

\* The bodies written between such brackets.  Where a list of objects was asked
\* for, "asked" and "unlawful" are lists; elsewhere they are objects.
Between(brackets) == CASE brackets = "{}" -> {"asked", "keyless", "unlawful"}
                       [] brackets = "[]" -> {"asked", "unlawful", "list"}
                       [] OTHER -> {}

\* What is read of the answer: its body, "missed", or "raises" for brackets
\* around no JSON.
Parsed(goal, reply) ==
    IF \/ reply.form = "bare"
       \/ reply.form = "wrapped" /\ reply.body \in Between(Brackets[goal])
      THEN reply.body
    ELSE IF reply.form = "torn" /\ Brackets[goal] # "" THEN "raises" ELSE "missed"

\* What function and caller make of it: found; partial, when some entries of a
\* list are dropped; the function's default; or an exception.
Use == [
  fields   |-> [asked |-> "found", keyless |-> "raises", unlawful |-> "raises",
                list |-> "raises", scalar |-> "raises", missed |-> "raises"],
  otp      |-> [asked |-> "found", keyless |-> "default", unlawful |-> "raises",
                list |-> "raises", scalar |-> "raises", missed |-> "default"],
  accounts |-> [asked |-> "found", keyless |-> "default", unlawful |-> "partial",
                list |-> "raises", scalar |-> "raises", missed |-> "default"],
  rows     |-> [asked |-> "found", keyless |-> "default", unlawful |-> "partial",
                list |-> "raises", scalar |-> "raises", missed |-> "default"],
  link     |-> [asked |-> "found", keyless |-> "default", unlawful |-> "raises",
                list |-> "raises", scalar |-> "raises", missed |-> "raises"],
  next     |-> [asked |-> "found", keyless |-> "default", unlawful |-> "default",
                list |-> "raises", scalar |-> "raises", missed |-> "default"],
  balance  |-> [asked |-> "found", keyless |-> "default", unlawful |-> "raises",
                list |-> "raises", scalar |-> "raises", missed |-> "default"]]

Outcome(provider, goal, reply) ==
    IF ClientRaises(provider, reply) \/ Parsed(goal, reply) = "raises" THEN "raises"
    ELSE Use[goal][Parsed(goal, reply)]

-----------------------------------------------------------------------------
\* detect_post_login_state: the answer itself, another that speaks of a code,
\* another.
States == {"logged_in", "otp_required", "login_failed"}
StateAnswers == States \cup {"of a code", "other", "blank", "none"}

PostLoginState(provider, answer) ==
    CASE answer \in States -> answer
      [] answer = "of a code" -> "otp_required"
      [] ClientRaises(provider, [form |-> answer, body |-> "scalar"]) -> "raises"
      [] OTHER -> "login_failed"
=============================================================================
