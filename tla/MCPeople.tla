------------------------------ MODULE MCPeople ------------------------------
(***************************************************************************)
(* What users do and get besides selling: codes, sessions, verification,   *)
(* reports, favourites, views, reviews, exports, and what they are told    *)
(* of, new listings included. The parts share no state that the models     *)
(* keep: a behaviour is about one of them, which "part" names.             *)
(***************************************************************************)
EXTENDS Integers, TLC

CONSTANTS
  Pair, Couple,  \* calls, processes, users, devices: interchangeable within each
  COOLDOWN, WINDOW, MAX_CODES_PER_15MIN, OTP_EXPIRY,  \* of Otp
  MAX_ATTEMPTS, PRUNE, TokenLife, MaxCodes, OtpTime,  \* and its bounds
  WAIT, MaxRequests, CaseTime,  \* of Verification, and its bounds
  MaxRounds,  \* of Reports
  Procs, ACCESS, REFRESH, LAST_SEEN_THROTTLE,  \* of SignIn
  MaxAccounts, SignTime,  \* its bounds
  FavoriteRows,  \* bound on the rows of Favorites
  VisitWindow, VisitDay, ChartDays,  \* of Visits
  VisitTime, MaxVisits,  \* its bounds
  MAX_SAVED_SEARCHES, Authors, Given, MaxReviews, MaxWrites,  \* of Reviews
  BATCH_SIZE, MaxRows,  \* of Export, and its bound
  BATCH, MaxStalls, MaxEvents,  \* of Notifications: BROADCAST_BATCH, maxStalledCount
  WEEK, MONTH, JITTER, ABSENT,  \* of Campaigns
  MaxActivities, MailTime,  \* its bounds
  Followers, MinInterval, Lookback, Retention,  \* of FollowerNotify
  FollowTime,  \* bound on its clock
  None  \* no value

VARIABLES
  part,  \* the part a behaviour is about
  s1, s2, s3, s4, s5, s6, s7, s8, s9, s10, s11, s12, s13  \* its variables; None beyond them

vars == <<part, s1, s2, s3, s4, s5, s6, s7, s8, s9, s10, s11, s12, s13>>

-----------------------------------------------------------------------------
Codes == INSTANCE Otp WITH
  Calls <- Pair, MaxTime <- OtpTime, now <- s1, purpose <- s2, codes <- s3,
  calls <- s4, tokens <- s5, stored <- s6, guesses <- s7, wins <- s8

Cases == INSTANCE Verification WITH
  Calls <- Pair, MaxTime <- CaseTime, today <- s1, verified <- s2,
  requests <- s3, calls <- s4, verdicts <- s5

Complaints == INSTANCE Reports WITH
  Calls <- Pair, status <- s1, stamped <- s2, calls <- s3, rounds <- s4,
  notices <- s5

Sessions == INSTANCE SignIn WITH
  Calls <- Pair, MaxTime <- SignTime, now <- s1, account <- s2, made <- s3,
  role <- s4, calls <- s5, tokens <- s6, cache <- s7, touches <- s8,
  welcomes <- s9, invited <- s10

Hearts == INSTANCE Favorites WITH
  Calls <- Pair, Fans <- Couple, MaxRows <- FavoriteRows, favorite <- s1,
  count <- s2, accounts <- s3, calls <- s4, inserted <- s5, disturbed <- s6

Views == INSTANCE Visits WITH
  Calls <- Pair, WINDOW <- VisitWindow, DAY <- VisitDay, Days <- ChartDays,
  MaxTime <- VisitTime, now <- s1, kind <- s2, access <- s3, visits <- s4,
  counter <- s5, calls <- s6, unkeyed <- s7, died <- s8

Ratings == INSTANCE Reviews WITH
  Calls <- Pair, reviews <- s1, searches <- s2,
  calls <- s3, stats <- s4, shown <- s5, writes <- s6, skew <- s7

Download == INSTANCE Export WITH
  table <- s1, inRange <- s2, cursor <- s3, sent <- s4, state <- s5,
  audited <- s6, stayed <- s7, lost <- s8

Notices == INSTANCE Notifications WITH
  Users <- Couple, Devices <- Pair, NoUser <- None,
  Kinds <- {"price", "alert", "broadcast", "security"}, opted <- s1,
  tokens <- s2, holder <- s3, events <- s4, jobs <- s5, inbox <- s6,
  pushes <- s7, willing <- s8, held <- s9

Letters == INSTANCE Campaigns WITH
  Procs <- Pair, MaxEvents <- MaxActivities, MaxTime <- MailTime, now <- s1,
  prefs <- s2, lastSeen <- s3, activity <- s4, runs <- s5, mails <- s6,
  told <- s7, left <- s8, ran <- s9, smooth <- s10

Announce == INSTANCE FollowerNotify WITH
  Listings <- Pair, Horizon <- FollowTime, now <- s1, ran <- s2,
  batches <- s3, pass <- s4, status <- s5, createdAt <- s6, ear <- s7,
  told <- s8, heard <- s9, stray <- s10, times <- s11, born <- s12,
  due <- s13

ASSUME PeopleAssumption ==
  /\ Codes!OtpAssumption
  /\ Cases!CaseAssumption
  /\ Complaints!ReportAssumption
  /\ Sessions!TokenAssumption
  /\ Hearts!FavoriteAssumption
  /\ Views!VisitAssumption
  /\ Ratings!LimitAssumption
  /\ Download!BatchAssumption
  /\ Notices!DeliveryAssumption
  /\ Letters!CampaignAssumption
  /\ Announce!FollowerAssumption

-----------------------------------------------------------------------------
Init ==
  \/ /\ part = "codes" /\ Codes!Init /\ s9 = None /\ s10 = None
     /\ s11 = None /\ s12 = None /\ s13 = None
  \/ /\ part = "cases" /\ Cases!Init /\ s6 = None /\ s7 = None /\ s8 = None
     /\ s9 = None /\ s10 = None /\ s11 = None /\ s12 = None /\ s13 = None
  \/ /\ part = "reports" /\ Complaints!Init /\ s6 = None /\ s7 = None
     /\ s8 = None /\ s9 = None /\ s10 = None /\ s11 = None /\ s12 = None
     /\ s13 = None
  \/ /\ part = "signIn" /\ Sessions!Init /\ s11 = None /\ s12 = None
     /\ s13 = None
  \/ /\ part = "favorites" /\ Hearts!Init /\ s7 = None /\ s8 = None
     /\ s9 = None /\ s10 = None /\ s11 = None /\ s12 = None /\ s13 = None
  \/ /\ part = "visits" /\ Views!Init /\ s9 = None /\ s10 = None
     /\ s11 = None /\ s12 = None /\ s13 = None
  \/ /\ part = "reviews" /\ Ratings!Init /\ s8 = None /\ s9 = None
     /\ s10 = None /\ s11 = None /\ s12 = None /\ s13 = None
  \/ /\ part = "export" /\ Download!Init /\ s9 = None /\ s10 = None
     /\ s11 = None /\ s12 = None /\ s13 = None
  \/ /\ part = "notices" /\ Notices!Init /\ s10 = None /\ s11 = None
     /\ s12 = None /\ s13 = None
  \/ /\ part = "campaigns" /\ Letters!Init /\ s11 = None /\ s12 = None
     /\ s13 = None
  \/ /\ part = "followers" /\ Announce!Init

CodesStep == part = "codes" /\ Codes!Next
             /\ UNCHANGED <<part, s9, s10, s11, s12, s13>>
CasesStep == part = "cases" /\ Cases!Next
             /\ UNCHANGED <<part, s6, s7, s8, s9, s10, s11, s12, s13>>
ComplaintsStep == part = "reports" /\ Complaints!Next
                  /\ UNCHANGED <<part, s6, s7, s8, s9, s10, s11, s12, s13>>
SessionsStep == part = "signIn" /\ Sessions!Next
                /\ UNCHANGED <<part, s11, s12, s13>>
HeartsStep == part = "favorites" /\ Hearts!Next
              /\ UNCHANGED <<part, s7, s8, s9, s10, s11, s12, s13>>
ViewsStep == part = "visits" /\ Views!Next
             /\ UNCHANGED <<part, s9, s10, s11, s12, s13>>
RatingsStep == part = "reviews" /\ Ratings!Next
               /\ UNCHANGED <<part, s8, s9, s10, s11, s12, s13>>
DownloadStep == part = "export" /\ Download!Next
                /\ UNCHANGED <<part, s9, s10, s11, s12, s13>>
NoticesStep == part = "notices" /\ Notices!Next
               /\ UNCHANGED <<part, s10, s11, s12, s13>>
LettersStep == part = "campaigns" /\ Letters!Next
               /\ UNCHANGED <<part, s11, s12, s13>>
AnnounceStep == part = "followers" /\ Announce!Next /\ UNCHANGED part

Next == CodesStep \/ CasesStep \/ ComplaintsStep \/ SessionsStep \/
        HeartsStep \/ ViewsStep \/ RatingsStep \/ DownloadStep \/
        NoticesStep \/ LettersStep \/ AnnounceStep

Spec == Init /\ [][Next]_vars

Symmetry == Permutations(Pair) \cup Permutations(Couple)

-----------------------------------------------------------------------------
TypeOK ==
  /\ part = "codes" => Codes!TypeOK
  /\ part = "cases" => Cases!TypeOK
  /\ part = "reports" => Complaints!TypeOK
  /\ part = "signIn" => Sessions!TypeOK
  /\ part = "favorites" => Hearts!TypeOK
  /\ part = "visits" => Views!TypeOK
  /\ part = "reviews" => Ratings!TypeOK
  /\ part = "export" => Download!TypeOK
  /\ part = "notices" => Notices!TypeOK
  /\ part = "campaigns" => Letters!TypeOK
  /\ part = "followers" => Announce!TypeOK

\* Codes, guesses, redemptions, visits per window and saved searches exceed
\* their limits by less than the calls that run at once
\* (OtpService.generate, verify, registerView, SavedSearchesService.create).
LimitsBounded ==
  /\ part = "codes" => Codes!IssueRateBounded /\ Codes!LiveCodesBounded /\ Codes!GuessesBounded /\ Codes!RedeemedOncePerCall
  /\ part = "visits" => Views!VisitsPerWindowBounded
  /\ part = "reviews" => Ratings!SearchesBounded

\* A PIN or phone changes only on the strength of a recent code, and the
\* badge of a verified user comes with a decided request (changePinWithOtp,
\* approve).
GrantsAreBacked ==
  [][/\ part = "codes" => Codes!BackedStep
     /\ part = "cases" => Cases!BadgeStep]_vars

\* Requests for verification do not pile up, and neither their verdicts nor
\* those on reports are announced over and over; a report shows a reviewer
\* exactly while it is resolved (requestVerification, approve, reject,
\* updateStatus).
CasesSettle ==
  /\ part = "cases" => Cases!QueueGrowsByDecisions /\ Cases!VerdictsBounded
  /\ part = "reports" => Complaints!NoticesBounded /\ Complaints!StampMatchesStatus

\* An account is welcomed once, what a banned account holds runs out, and a
\* process forgets a visit it failed to record (validateOrCreateUser,
\* refreshToken, touchLastSeen).
SessionsBounded ==
  part = "signIn" =>
    /\ Sessions!WelcomedOnce
    /\ Sessions!BannedSessionsRunOut
    /\ Sessions!TouchNotForgotten

\* Counters and charts say what the rows say, up to the calls between row
\* and counter (toggle, registerView, sellerViewsDaily, getStats).
FiguresMatchRows ==
  /\ part = "favorites" => Hearts!CounterMatchesRows
  /\ part = "visits" => Views!CounterMatchesVisits /\ Views!ChartAddsUp
  /\ part = "reviews" => Ratings!StatsSkewBounded

\* An export has every row in range that was there all the time, once
\* (streamBatched).
ExportComplete == part = "export" => Download!ExportComplete

\* Each recipient is notified once of an event, and each activity is in one
\* weekly digest (NotificationsListener, activityDigest).
ToldOnce ==
  /\ part = "notices" => Notices!OneNoticePerEvent
  /\ part = "campaigns" => Letters!InOneDigest

\* Who opted out of notifications, or of a campaign, before it began gets
\* none of it (create, unsubscribe).
OptOutsHold ==
  /\ part = "notices" => Notices!NoticesWanted
  /\ part = "campaigns" => Letters!UnsubscribeHolds

\* Pushes reach devices of the user they are for, and each device once per
\* notification, unless a worker died (sendToUser).
PushesBounded ==
  part = "notices" =>
    /\ Notices!PushesReachTheirUser
    /\ Notices!PushesBounded

\* A follower hears of a seller twice within the interval only after a pass
\* that failed (flushAt).
RepeatsNeedAFailure ==
  [][part = "followers" => Announce!RepeatStep]_vars

\* A listing is announced in one batch, in two only if it was created while
\* a pass ran, and everyone who listens hears of it in time unless a pass
\* failed or was missed (flushAt).
FollowersHearOnce ==
  part = "followers" =>
    /\ Announce!InOneBatch
    /\ Announce!NothingSkipped
=============================================================================
