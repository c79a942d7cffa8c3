----------------------------- MODULE StreamFrames -----------------------------
(***************************************************************************)
(* One streamed answer, frame by frame: the generator stream() of          *)
(* gridraft/member_gateway.py and the usage reports it believes.  Gateway  *)
(* has the concurrent requests and treats a whole stream as one step.      *)
(***************************************************************************)
EXTENDS Integers, SequencesExt

CONSTANTS
  Frames,      \* what the provider may send between two blank lines
  MaxChoices,  \* requested_choices
  HeaderId,    \* x-request-id of the response
  MaxTokens,   \* 10^7
  MaxFrames,   \* the size limit of 2 MB, counted in frames
  Blank        \* a missing field

ASSUME FrameAssumption == MaxChoices \in Nat /\ MaxTokens \in Nat /\ MaxFrames \in Nat

VARIABLES
  phase,    \* where the generator is
  got,      \* history: the frames received
  usage,    \* usage; terminal_usage is usage # Blank
  uid,      \* uid
  named,    \* response_id
  booked    \* history: the ledger calls that took effect

frameVars == <<phase, got, usage, uid, named, booked>>

FramesInit ==
  /\ phase = "reading" /\ got = <<>>
  /\ usage = Blank /\ uid = HeaderId /\ named = Blank
  /\ booked = <<>>

-------------------------------------------------------------------------------
(* One frame.                                                              *)

UsageOk(u) ==
  /\ u.prompt \in 0..MaxTokens /\ u.completion \in 0..MaxTokens
  /\ u.total # Blank => u.total = u.prompt + u.completion
  /\ u.cached # Blank => u.cached \in 0..u.prompt
  /\ u.reasoning # Blank => u.reasoning \in 0..u.completion

Parsed(u) == [u EXCEPT !.total = u.prompt + u.completion]

(* Blank is no report.                                                     *)
ASSUME ReportAssumption == \A f \in Frames : f.usage # Blank => Parsed(f.usage) # Blank

(* Faulty: any later report is believed as long as it does not shrink.     *)
LaterUsage(f) ==
  f.usage # Blank => UsageOk(f.usage) /\ (usage # Blank => Parsed(f.usage).total >= usage.total)

SameUsage(f) ==
  f.usage # Blank => UsageOk(f.usage) /\ (usage # Blank => Parsed(f.usage) = usage)

SameAnswer(f) == f.id # Blank /\ named # Blank => f.id = named

ChoicesOk(f) ==
  /\ Len(f.choices) <= MaxChoices
  /\ IsInjective(f.choices)
  /\ \A c \in ToSet(f.choices) : c \in 0..(MaxChoices - 1)

Accepted(f) ==
  /\ ~f.broken   \* not JSON, an error, another model, a bad id or delta
  /\ SameAnswer(f) /\ ChoicesOk(f) /\ SameUsage(f)
  /\ usage # Blank => f.choices = <<>>

-------------------------------------------------------------------------------
(* The generator.                                                          *)

Move(to) == phase' = to /\ UNCHANGED <<got, usage, uid, named, booked>>

(* An id is taken over before the rest of its frame is looked at.          *)
Frame(f) ==
  /\ phase = "reading" /\ Len(got) < MaxFrames
  /\ got' = Append(got, f)
  /\ IF ~f.broken /\ SameAnswer(f) /\ f.id # Blank
     THEN named' = f.id /\ uid' = f.id
     ELSE UNCHANGED <<named, uid>>
  /\ usage' = IF Accepted(f) /\ f.usage # Blank THEN Parsed(f.usage) ELSE usage
  /\ phase' = IF Accepted(f) THEN "yielding" ELSE "failed"
  /\ UNCHANGED booked

Taken == phase = "yielding" /\ Move("reading")

(* data: [DONE]                                                            *)
Done == phase = "reading" /\ Move(IF usage = Blank THEN "failed" ELSE "pricing")

(* The cost is looked up, the row settled and [DONE] passed on.            *)
SettleStream ==
  /\ phase = "pricing"
  /\ booked' = Append(booked, [call |-> "settle", tokens |-> usage.total, uid |-> uid])
  /\ phase' = "done"
  /\ UNCHANGED <<got, usage, uid, named>>

(* The stream ends early, is too large or too slow; the lookup or the      *)
(* settlement fails.                                                       *)
Break == phase \in {"reading", "pricing"} /\ Move("failed")

(* The finally clause.                                                     *)
Unsettled ==
  IF phase = "done" THEN UNCHANGED booked
  ELSE booked' = Append(booked, [call |-> "review", tokens |-> 0, uid |-> uid])

(* The generator ends, by itself or because the client goes away at a      *)
(* yield or the task is cancelled in an await.                             *)
EndStream ==
  /\ phase # "closed"
  /\ Unsettled
  /\ phase' = "closed"
  /\ UNCHANGED <<got, usage, uid, named>>

FramesNext ==
  \/ \E f \in Frames : Frame(f)
  \/ Taken \/ Done \/ SettleStream \/ Break \/ EndStream

FramesSpec == FramesInit /\ [][FramesNext]_frameVars

-------------------------------------------------------------------------------
(* What a complete answer is, said of all its frames at once.              *)
Complete(fs) ==
  LET reports == {i \in DOMAIN fs : fs[i].usage # Blank}
      ids == {fs[i].id : i \in DOMAIN fs} \ {Blank}
  IN  /\ reports # {}
      /\ \A i \in reports : UsageOk(fs[i].usage)
      /\ \A i, j \in reports : Parsed(fs[i].usage) = Parsed(fs[j].usage)
      /\ \A i \in reports, j \in DOMAIN fs : i < j => fs[j].choices = <<>>
      /\ \A x, y \in ids : x = y
      /\ \A i \in DOMAIN fs : ~fs[i].broken /\ ChoicesOk(fs[i])

(* The row of a stream is settled or reviewed once the generator has       *)
(* ended, and once only; it is settled only for a complete answer, for the *)
(* total that every usage report of the answer gives, under the answer's   *)
(* own id where it has one (member_gateway.py stream).                     *)
FramesSettleOnce ==
  /\ Len(booked) <= 1
  /\ phase = "closed" => Len(booked) = 1
  /\ \A b \in ToSet(booked) : b.call = "settle" =>
       /\ Complete(got)
       /\ \A f \in ToSet(got) :
            /\ f.usage # Blank => b.tokens = Parsed(f.usage).total
            /\ f.id # Blank => b.uid = f.id
===============================================================================
