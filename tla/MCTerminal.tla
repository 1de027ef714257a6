----------------------------- MODULE MCTerminal -----------------------------
(* Instances of Terminal for TLC.  Each scene takes the frames that its     *)
(* question is about; together they cover every matcher.                    *)
EXTENDS Terminal

M(map, claims) == [map |-> map, claims |-> claims]
Plain(to, type, from) == Frame(to, type, from, Empty, TRUE)
Rollcall(to, from, map, claims) == Frame(to, "rollcall", from, M(map, claims), TRUE)

ColdWalk == Rollcall("first", "ctrl", Members, {})
WarmWalk == Rollcall("first", "ctrl", Members, {"pgd"})
FfProbe == Rollcall("us", "ctrl", Members, {})
GapProbe == Rollcall("us", "ctrl", {"pgd"}, {"pgd"})
Confirm == Rollcall("us", "ctrl", Members, Members)
MemberToken == Rollcall("us", "pgd", {"pgd"}, {"pgd"})
ProbePgd == Rollcall("pgd", "ctrl", Members, {})
ProbeOther == Rollcall("other", "ctrl", Members, Members)
PgdClaims == Rollcall("ctrl", "pgd", Members, {"pgd"})
PollUs == Plain("us", "link", "ctrl")
PollFromPgd == Plain("us", "link", "pgd")
PollFromMember == Plain("us", "link", "member")
PgdReply == Plain("ctrl", "link", "pgd")
MirrorReply == Plain("ctrl", "link", "us")
PgdAck == Plain("ctrl", "sack", "pgd")
Ack == Plain("ctrl", "bareAck", "ctrl")
SessionOf(type, ok) == Frame("us", type, "ctrl", Empty, ok)

JoinFrames == {WarmWalk, FfProbe, GapProbe, Confirm, ProbePgd, PgdClaims, PollUs, Ack}
ForwardFrames == {ColdWalk, GapProbe, ProbePgd, PollUs, PollFromPgd, PgdReply, MirrorReply, PgdAck, Ack,
                  Frame("us", "session", "pgd", Empty, TRUE)}
LinkFrames == {ColdWalk, GapProbe, MemberToken, ProbeOther, PollUs, PollFromPgd, PollFromMember, Ack,
               SessionOf("row", FALSE), SessionOf("row", TRUE), SessionOf("init", TRUE),
               SessionOf("ident", TRUE)}

-----------------------------------------------------------------------------
(* Three terminals: one that joins among the walks; one that forwards its    *)
(* polls to the pGD, around a join of its own; one that holds a session,     *)
(* injects keys and drains.  Any answer of theirs may find its slot taken.   *)

VARIABLE scene

AllOfThem == JoinFrames \cup ForwardFrames \cup LinkFrames
Joins == INSTANCE Terminal WITH Frames <- JoinFrames, FwdPolls <- FALSE, Tasks <- {}
Forwards == INSTANCE Terminal WITH Frames <- ForwardFrames, MaxJoins <- 1, Tasks <- {"key"},
                                   GapWalk <- 1, Fold <- 0, AbsentAfter <- 1
Link == INSTANCE Terminal WITH Frames <- LinkFrames, FwdPolls <- FALSE, MaxJoins <- 1,
                               GapWalk <- 1, Fold <- 0, AbsentAfter <- 1

MCInit == Init /\ scene \in {"joins", "forwards", "link"}

MCNext ==
  /\ \/ scene = "joins" /\ Joins!Next
     \/ scene = "forwards" /\ Forwards!Next
     \/ scene = "link" /\ Link!Next
  /\ UNCHANGED scene

MCSpec == MCInit /\ [][MCNext]_<<vars, scene>>
=============================================================================
