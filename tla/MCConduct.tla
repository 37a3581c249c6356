------------------------------ MODULE MCConduct -------------------------------
(***************************************************************************)
(* The conduct of accounts and what is kept about them, on small instances *)
(* of many modules. The initial state picks one part, and only that part's *)
(* variables move, so the parts' states add up.                            *)
(***************************************************************************)
EXTENDS Integers

VARIABLES
    part,
    tier, hold, banned, status, ledger, refusals, recent, evidence, changes, promo,
    decision, appeal,
    taskState, message, sending, todo, queue, review, reviews, objection, reports, told,
    read, lost,
    state, worker, terms, escrow, fit, shown, live, counter, lapsed, deciding, overlapped,
    today, submitting, paper, consent, check, notice, contest, plea, profile, owed, missed,
    together,
    intent, held, payoutReady, destination, transfer, settler, idcase, pointed, verified,
    report, background, seeker, crossed, due,
    biometric, place, proofState, reviewable, analysis, mark, toldAdmins, opinion, call,
    lock, erased, overtaken, torn, crowded,
    rows, heldKinds, session, dataErased, failed, request, again, file, stamp, allowed,
    restarts,
    tokens, owner, registering, push, shared, unordered, prefs, saving, asked, address,
    email, note, moves,
    breaker, elapsed, straggled, caller, madeAtStripe, stripeKeys, forgets, hookEvent, hook,
    handled, failRow, failJob, booked, toldFailure,
    barred, sessionCache, marker, signedOut, userCall, order, left, unmarked, crossedOrders,
    role, change, raced, detection, suspectStatus, score, suspectTask, suspectEscrow,
    passed, toldSuspects,
    cell, measured, greensThen, cellTask, greensSeen, sharedCell, expansion, witness,
    viewed, agreed, testTerms, rewritten, edits,
    drafter, posting, regionPolicy, newTask, createKeys, violationsLogged, wave, invited,
    alerted, owing, heldThen,
    answersKept, aiCall, observed, replicated, response, outcomes, routed, spent, billed,
    crowdedBudget, submission, inferredRole,
    disputeCase, exhibits, advice, workRecord, recordEvents,
    failedDelivery, clusterOwner, claimEvents, retryEvents, cancelling, recovery, outrun,
    safetyTask, safetyCases, reportCall, checkins, overdue, contactEvents, agedReports,
    probes, toldDevices, misread,
    taskRatings, lateTasks, ratingLock, ratingCall, ratingEvidence, erasedSides,
    localMembers, recommenders, recommended, signals, signalAppeals, metRecommenders

\* A draft and a policy that nothing is peculiar about.
PlainDraft ==
    [continuous |-> FALSE, forbidden |-> FALSE, weapon |-> "none", massage |-> FALSE, licence |-> FALSE,
     heuristic |-> 0, injection |-> 0, phrase |-> FALSE, deceptive |-> FALSE,
     template |-> "standard_physical", care |-> FALSE, home |-> FALSE, filmed |-> FALSE, people |-> FALSE,
     licensed |-> FALSE, bizarre |-> FALSE, premium |-> 0, words |-> "long", usual |-> 3000, price |-> 5000,
     payout |-> 4000, place |-> "street", access |-> FALSE, complex |-> FALSE, outcome |-> FALSE,
     ambiguous |-> FALSE, instant |-> FALSE, sensitive |-> FALSE]
PlainPolicy ==
    [production |-> TRUE, approved |-> TRUE, risks |-> {"LOW", "HIGH"}, floor |-> 2000, payout |-> 1000,
     licensed |-> FALSE, recording |-> FALSE]
\* The record of a worker who has done nothing yet.
NewRecord ==
    [done |-> 0, active |-> 0, cancelled |-> 0, disputed |-> 0, disputes |-> 0, open |-> 0,
     recent |-> 0, paired |-> 0, fresh |-> 0, prior |-> 0, denied |-> 0, ratings |-> <<>>,
     tier |-> 1, verified |-> FALSE, age |-> 1, streak |-> 0]

\* A safety report that says one thing.
SafetyReport(by, key, stage, seq, prior, shares) ==
    [by |-> by, key |-> key, text |-> 1, evidence |-> stage, seq |-> seq, prior |-> prior,
     channel |-> "call", shares |-> shares]


\* Penalties and promotions side by side, from Explorer or Verified; and appeals of what was
\* decided.
Penalties == INSTANCE TrustStanding WITH
    Disputes <- {"d1", "d2"}, AsWorker <- {"d1"}, Refunded <- {"d1"}, Admins <- {"a1"},
    Promoters <- {"job", "a1"}, StartTiers <- {0, 1}, Attempts <- 2, MaxDecisions <- 0,
    MaxAppeals <- 0, MaxChanges <- 2
Overruling == INSTANCE TrustStanding WITH
    Disputes <- {}, AsWorker <- {}, Refunded <- {}, Admins <- {"a1", "a2"},
    Promoters <- {"job"}, StartTiers <- {1}, Attempts <- 1, MaxDecisions <- 2,
    MaxAppeals <- 2, MaxChanges <- 0
Appeals == INSTANCE TrustStanding WITH
    Disputes <- {}, AsWorker <- {}, Refunded <- {}, Admins <- {"a1"}, Promoters <- {"job"},
    StartTiers <- {1}, Attempts <- 1, MaxDecisions <- 2, MaxAppeals <- 2, MaxChanges <- 1

\* A text and a photo without failures; texts, and a photo with a caption, with insertions that
\* fail.
Texting == INSTANCE Moderation WITH
    Texts <- {"t1"}, Flagged <- {"t1"}, Photos <- {"p1"}, Captioned <- {},
    Reviewers <- {"r1"}, Decisions <- {"approve", "reject", "escalate"}, Faults <- FALSE,
    MaxItems <- 4, MaxReviews <- 3, MaxAppeals <- 1, appeal <- objection
Reviewing == INSTANCE Moderation WITH
    Texts <- {"t1", "t2"}, Flagged <- {"t1"}, Photos <- {}, Captioned <- {},
    Reviewers <- {"r1", "r2"}, Decisions <- {"approve", "reject", "escalate"},
    Faults <- TRUE, MaxItems <- 3, MaxReviews <- 2, MaxAppeals <- 1, appeal <- objection
Picturing == INSTANCE Moderation WITH
    Texts <- {}, Flagged <- {}, Photos <- {"p1"}, Captioned <- {"p1"},
    Reviewers <- {"r1", "r2"}, Decisions <- {"approve", "reject", "no_action"},
    Faults <- TRUE, MaxItems <- 4, MaxReviews <- 3, MaxAppeals <- 1, appeal <- objection

\* Two workers and a task; one worker and changing terms; two tasks for one worker.
Competing == INSTANCE Offers WITH
    Tasks <- {"t1"}, Workers <- {"w1", "w2"}, MaxActive <- 1, MaxTerms <- 1, Total <- 2000,
    Payout <- 1500, Margin <- 500, Proposals <- {1700}
Lapsing == INSTANCE Offers WITH
    Tasks <- {"t1"}, Workers <- {"w1"}, MaxActive <- 1, MaxTerms <- 3, Total <- 2000,
    Payout <- 1500, Margin <- 500, Proposals <- {1700, 1900}
Juggling == INSTANCE Offers WITH
    Tasks <- {"t1", "t2"}, Workers <- {"w1"}, MaxActive <- 1, MaxTerms <- 1, Total <- 2000,
    Payout <- 1500, Margin <- 500, Proposals <- {1700}

\* Two licences and an insurance of a worker; a background check with one licence.
Submitting == INSTANCE Credentials WITH
    Papers <- {"p1", "p2", "p3"}, Licences <- {"p1", "p2"}, MaxDay <- 2, Screened <- FALSE,
    Faults <- TRUE
Screening == INSTANCE Credentials WITH
    Papers <- {"p1"}, Licences <- {"p1"}, MaxDay <- 1, Screened <- TRUE, Faults <- TRUE

\* The providers of test work: a payout settled twice, verifications of a user, screenings with
\* and without other writers.
Settling == INSTANCE TestProviders WITH
    Settlers <- {"job", "router"}, Cases <- {}, Consents <- {}, Seekers <- {},
    Crossing <- TRUE, escrow <- held, owed <- due
Verifying == INSTANCE TestProviders WITH
    Settlers <- {}, Cases <- {"c1", "c2", "c3"}, Consents <- {}, Seekers <- {},
    Crossing <- TRUE, escrow <- held, owed <- due
Seeking == INSTANCE TestProviders WITH
    Settlers <- {}, Cases <- {}, Consents <- {"k1", "k2"}, Seekers <- {"s1", "s2", "s3"},
    Crossing <- FALSE, escrow <- held, owed <- due
Overwriting == INSTANCE TestProviders WITH
    Settlers <- {}, Cases <- {}, Consents <- {"k1", "k2"}, Seekers <- {"s1", "s2"},
    Crossing <- TRUE, escrow <- held, owed <- due

\* The analyses of a proof: two reviews; a request of the worker and a job.
Accepting == INSTANCE ProofSignals WITH
    Requests <- {}, Reviews <- {"v1", "v2"}, Jobs <- {},
    Faces <- {[live |-> 90, fake |-> 10], [live |-> 20, fake |-> 95]},
    Places <- {<<>>, <<900, 100>>}, Faults <- TRUE, consent <- biometric,
    proof <- proofState, signal <- analysis, told <- toldAdmins
Analysing == INSTANCE ProofSignals WITH
    Requests <- {"r1"}, Reviews <- {}, Jobs <- {"j1"},
    Faces <- {[live |-> 90, fake |-> 10], [live |-> 20, fake |-> 95]},
    Places <- {<<900, 100>>}, Faults <- TRUE, consent <- biometric, proof <- proofState,
    signal <- analysis, told <- toldAdmins

\* The records of a user, by kind, beside an erasure; the cool-down of such requests.
Forgetting == INSTANCE PersonalData WITH
    Deleted <- {"devices", "checks"}, Redacted <- {"messages"}, Unlinked <- {"events"},
    Kept <- {"ledger"}, Restricting <- {"checks"}, Exported <- {"messages", "ledger"},
    Recent <- {"messages"}, Requests <- {"q1", "q2"}, Processes <- {}, MaxRestarts <- 0,
    held <- heldKinds, erased <- dataErased
Cooling == INSTANCE PersonalData WITH
    Deleted <- {}, Redacted <- {}, Unlinked <- {}, Kept <- {"ledger"}, Restricting <- {},
    Exported <- {}, Recent <- {}, Requests <- {}, Processes <- {"s1", "s2"},
    MaxRestarts <- 2, held <- heldKinds, erased <- dataErased

\* The devices, preferences and emails of a user.
Devices == INSTANCE Inbox WITH
    Users <- {"u1", "u2"}, Tokens <- {"t1", "t2"}, Registrations <- {"r1", "r2"},
    Pushes <- {"p1"}, Cap <- 1, Savers <- {}, Values <- {}, Emailed <- FALSE, MaxMoves <- 1,
    Day <- 4, Jumps <- {-1, 5, 6}, overlapped <- unordered
Settings == INSTANCE Inbox WITH
    Users <- {"u1"}, Tokens <- {"t1"}, Registrations <- {}, Pushes <- {}, Cap <- 1,
    Savers <- {"s1", "s2"}, Values <- {"on", "off"}, Emailed <- TRUE, MaxMoves <- 2,
    Day <- 6, Jumps <- {-1, 7, 8, 9, 10}, overlapped <- unordered

Failing == INSTANCE StripeCalls WITH
    Callers <- {}, Requests <- {}, Threshold <- 1, Reset <- FALSE, MaxMade <- 0,
    MaxForgets <- 0, Hooks <- {}, Failures <- {"transfer", "payment", "payout"},
    MaxRuns <- 2, made <- madeAtStripe, keys <- stripeKeys, event <- hookEvent,
    row <- failRow, job <- failJob, told <- toldFailure
Keying == INSTANCE StripeCalls WITH
    Callers <- {"c1", "c2"}, Requests <- {[op |-> "intent", of |-> "e1", amount |-> 1,
    to |-> ""], [op |-> "intent", of |-> "e1", amount |-> 2, to |-> ""]}, Threshold <- 9,
    Reset <- FALSE, MaxMade <- 2, MaxForgets <- 1, Hooks <- {}, Failures <- {},
    MaxRuns <- 0, made <- madeAtStripe, keys <- stripeKeys, event <- hookEvent,
    row <- failRow, job <- failJob, told <- toldFailure
Hooking == INSTANCE StripeCalls WITH
    Callers <- {}, Requests <- {}, Threshold <- 1, Reset <- FALSE, MaxMade <- 0,
    MaxForgets <- 0, Hooks <- {"h1", "h2", "h3"}, Failures <- {}, MaxRuns <- 0,
    made <- madeAtStripe, keys <- stripeKeys, event <- hookEvent, row <- failRow,
    job <- failJob, told <- toldFailure
\* Calls to Stripe: the circuit breaker, the keys of calls, the claim of a webhook, failure
\* events.
Breaking == INSTANCE StripeCalls WITH
    Callers <- {"c1", "c2", "c3"},
    Requests <- {[op |-> "read", of |-> "", amount |-> 0, to |-> ""]}, Threshold <- 2,
    Reset <- TRUE, MaxMade <- 1, MaxForgets <- 0, Hooks <- {}, Failures <- {}, MaxRuns <- 0,
    made <- madeAtStripe, keys <- stripeKeys, event <- hookEvent, row <- failRow,
    job <- failJob, told <- toldFailure

\* Accounts: founders and an administrator; a founderless staff; suspects alone and in a ring; a
\* session.
Ranking == INSTANCE AccountControl WITH
    Places <- {"p1"}, Calls <- {}, Orders <- {}, MaxOrders <- 0, Staff <- {"a", "f", "g"},
    RoleChanges <- {[kind |-> "revoke", by |-> "f", on |-> "g", rank |-> 5],
    [kind |-> "revoke", by |-> "g", on |-> "f", rank |-> 5], [kind |-> "grant", by |-> "f",
    on |-> "a", rank |-> 4], [kind |-> "grant", by |-> "g", on |-> "a", rank |-> 2],
    [kind |-> "grant", by |-> "a", on |-> "g", rank |-> 3]},
    FirstRoles <- {[a |-> 0, f |-> 5, g |-> 5]}, Ring <- <<>>, Posters <- {},
    Detections <- {}, Levels <- {}, Scores <- {}, Columns <- FALSE, Faults <- FALSE,
    cache <- sessionCache, call <- userCall, crossed <- crossedOrders,
    status <- suspectStatus, escrow <- suspectEscrow, told <- toldSuspects
Climbing == INSTANCE AccountControl WITH
    Places <- {"p1"}, Calls <- {}, Orders <- {}, MaxOrders <- 0, Staff <- {"a", "f", "g"},
    RoleChanges <- {[kind |-> "revoke", by |-> "a", on |-> "g", rank |-> 3],
    [kind |-> "grant", by |-> "a", on |-> "g", rank |-> 2], [kind |-> "grant", by |-> "a",
    on |-> "f", rank |-> 5], [kind |-> "grant", by |-> "g", on |-> "f", rank |-> 3],
    [kind |-> "grant", by |-> "f", on |-> "g", rank |-> 5]},
    FirstRoles <- {[a |-> 4, f |-> 0, g |-> 3]}, Ring <- <<>>, Posters <- {},
    Detections <- {}, Levels <- {}, Scores <- {}, Columns <- FALSE, Faults <- FALSE,
    cache <- sessionCache, call <- userCall, crossed <- crossedOrders,
    status <- suspectStatus, escrow <- suspectEscrow, told <- toldSuspects
Suspecting == INSTANCE AccountControl WITH
    Places <- {"p1"}, Calls <- {}, Orders <- {}, MaxOrders <- 0, Staff <- {},
    RoleChanges <- {}, FirstRoles <- {<<>>}, Ring <- <<"u1">>, Posters <- {},
    Detections <- {"d1", "d2"}, Levels <- {"CRITICAL", "MEDIUM"}, Scores <- {},
    Columns <- TRUE, Faults <- FALSE, cache <- sessionCache, call <- userCall,
    crossed <- crossedOrders, status <- suspectStatus, escrow <- suspectEscrow,
    told <- toldSuspects
Posting == INSTANCE AccountControl WITH
    Places <- {"p1"}, Calls <- {}, Orders <- {}, MaxOrders <- 0, Staff <- {},
    RoleChanges <- {}, FirstRoles <- {<<>>}, Ring <- <<"u1">>, Posters <- {"u1"},
    Detections <- {"d1"}, Levels <- {"CRITICAL", "HIGH"}, Scores <- {40}, Columns <- TRUE,
    Faults <- TRUE, cache <- sessionCache, call <- userCall, crossed <- crossedOrders,
    status <- suspectStatus, escrow <- suspectEscrow, told <- toldSuspects
Ringing == INSTANCE AccountControl WITH
    Places <- {"p1"}, Calls <- {}, Orders <- {}, MaxOrders <- 0, Staff <- {},
    RoleChanges <- {}, FirstRoles <- {<<>>}, Ring <- <<"u1", "u2">>, Posters <- {"u1"},
    Detections <- {"d1"}, Levels <- {"CRITICAL"}, Scores <- {}, Columns <- FALSE,
    Faults <- FALSE, cache <- sessionCache, call <- userCall, crossed <- crossedOrders,
    status <- suspectStatus, escrow <- suspectEscrow, told <- toldSuspects
Barring == INSTANCE AccountControl WITH
    Places <- {"p1", "p2"}, Calls <- {"c1"}, Orders <- {"p1", "p2"}, MaxOrders <- 2,
    Staff <- {}, RoleChanges <- {}, FirstRoles <- {<<>>}, Ring <- <<>>, Posters <- {},
    Detections <- {}, Levels <- {}, Scores <- {}, Columns <- FALSE, Faults <- TRUE,
    cache <- sessionCache, call <- userCall, crossed <- crossedOrders,
    status <- suspectStatus, escrow <- suspectEscrow, told <- toldSuspects

\* Cells of work: two tasks in a cell, a zone that grows, a production cell at the key of a test
\* cell, two test tasks.
Dispatching == INSTANCE Liquidity WITH
    Cells <- {[zone |-> "z", category |-> "a", window |-> "day"], [zone |-> "z",
    category |-> "b", window |-> "day"]}, FirstCells <- {[zone |-> "z", category |-> "a",
    window |-> "day"], [zone |-> "z", category |-> "b", window |-> "day"]},
    MeasuresOf <- [c \in {[zone |-> "z", category |-> "a", window |-> "day"], [zone |-> "z",
    category |-> "b", window |-> "day"]} |-> IF c.category = "a" THEN {[completed |-> 10,
    paid |-> 10, fill |-> 70, providers |-> 2, anchors |-> 2, contribution |-> 5,
    sample |-> 0, hourly |-> 0, dispute |-> 0, noShow |-> 0, cancelled |-> 15,
    repeat |-> 0], [completed |-> 30, paid |-> 29, fill |-> 85, providers |-> 5,
    anchors |-> 2, contribution |-> 5, sample |-> 30, hourly |-> 10, dispute |-> 5,
    noShow |-> 0, cancelled |-> 15, repeat |-> 20]} ELSE {}], Floors <- {20},
    Tasks <- {"t1", "t2"}, TestTasks <- {}, CategoryOf <- [t \in {"t1", "t2"} |-> "a"],
    HomeOf <- <<>>, MarginOf <- <<>>, Workers <- {}, Requests <- {}, MaxEdits <- 1,
    task <- cellTask, overlapped <- sharedCell, request <- expansion, terms <- testTerms
Growing == INSTANCE Liquidity WITH
    Cells <- {[zone |-> "z", category |-> "a", window |-> "day"], [zone |-> "z",
    category |-> "b", window |-> "day"], [zone |-> "z", category |-> "c", window |-> "day"],
    [zone |-> "z", category |-> "e", window |-> "day"]}, FirstCells <- {[zone |-> "z",
    category |-> "a", window |-> "day"], [zone |-> "z", category |-> "b", window |-> "day"],
    [zone |-> "z", category |-> "c", window |-> "day"]},
    MeasuresOf <- [c \in {[zone |-> "z", category |-> "a", window |-> "day"], [zone |-> "z",
    category |-> "b", window |-> "day"], [zone |-> "z", category |-> "c", window |-> "day"],
    [zone |-> "z", category |-> "e",
    window |-> "day"]} |-> IF c.category = "a" THEN {[completed |-> 30, paid |-> 30,
    fill |-> 85, providers |-> 5, anchors |-> 2, contribution |-> 5, sample |-> 30,
    hourly |-> 20, dispute |-> 5, noShow |-> 0, cancelled |-> 15,
    repeat |-> 20]} ELSE IF c.category = "b" THEN {[completed |-> 10, paid |-> 10,
    fill |-> 70, providers |-> 2, anchors |-> 2, contribution |-> 5, sample |-> 0,
    hourly |-> 0, dispute |-> 0, noShow |-> 0, cancelled |-> 15, repeat |-> 0]} ELSE {}],
    Floors <- {20}, Tasks <- {"t1"}, TestTasks <- {}, CategoryOf <- [t \in {"t1"} |-> "b"],
    HomeOf <- <<>>, MarginOf <- <<>>, Workers <- {}, Requests <- {[key |-> "k1",
    from |-> [zone |-> "z", category |-> "a", window |-> "day"], to |-> [zone |-> "z",
    category |-> "e", window |-> "day"], override |-> "none"]}, MaxEdits <- 0,
    task <- cellTask, overlapped <- sharedCell, request <- expansion, terms <- testTerms
Colliding == INSTANCE Liquidity WITH
    Cells <- {[zone |-> "z", category |-> "a", window |-> "day"], [zone |-> "z",
    category |-> "e", window |-> "day"]},
    FirstCells <- {[zone |-> "z", category |-> "a", window |-> "day"]},
    MeasuresOf <- [c \in {[zone |-> "z", category |-> "a", window |-> "day"], [zone |-> "z",
    category |-> "e", window |-> "day"]} |-> {}], Floors <- {20}, Tasks <- {"t1", "t2"},
    TestTasks <- {"t2"}, CategoryOf <- [t \in {"t1", "t2"} |-> "e"],
    HomeOf <- [t \in {"t2"} |-> [zone |-> "z", category |-> "e", window |-> "day"]],
    MarginOf <- [t \in {"t2"} |-> 5], Workers <- {"w"}, Requests <- {[key |-> "k1",
    from |-> [zone |-> "z", category |-> "a", window |-> "day"], to |-> [zone |-> "z",
    category |-> "e", window |-> "day"], override |-> "overlong"], [key |-> "k2",
    from |-> [zone |-> "z", category |-> "a", window |-> "day"], to |-> [zone |-> "z",
    category |-> "e", window |-> "day"], override |-> "valid"]}, MaxEdits <- 1,
    task <- cellTask, overlapped <- sharedCell, request <- expansion, terms <- testTerms
Certifying == INSTANCE Liquidity WITH
    Cells <- {[zone |-> "z", category |-> "e", window |-> "day"]}, FirstCells <- {},
    MeasuresOf <- [c \in {[zone |-> "z", category |-> "e", window |-> "day"]} |-> {}],
    Floors <- {20}, Tasks <- {"t1", "t2"}, TestTasks <- {"t1", "t2"},
    CategoryOf <- [t \in {"t1", "t2"} |-> "e"],
    HomeOf <- [t \in {"t1", "t2"} |-> [zone |-> "z", category |-> "e", window |-> "day"]],
    MarginOf <- [t1 |-> 5, t2 |-> 6], Workers <- {"w"}, Requests <- {}, MaxEdits <- 0,
    task <- cellTask, overlapped <- sharedCell, request <- expansion, terms <- testTerms

\* The creation of tasks: two calls with one key, a poster whose plan and policy change, an
\* instant task's search.
Keyed == INSTANCE TaskCreation WITH
    Drafts <- <<PlainDraft, [PlainDraft EXCEPT !.home = TRUE, !.phrase = TRUE,
    !.heuristic = 40]>>, Keys <- {"k"}, NoKey <- "nokey", Requests <- {1, 2},
    Policies <- <<[PlainPolicy EXCEPT !.risks = {"LOW", "HIGH"}],
    [PlainPolicy EXCEPT !.risks = {"LOW"}]>>, Posters <- {[plan |-> "premium",
    lapsed |-> FALSE, entitled |-> FALSE, hold |-> FALSE]}, Changes <- {"hold"},
    Hustlers <- {}, Skill <- <<>>, Runs <- {}, InstantOn <- FALSE, SurgeOn <- FALSE,
    PostLimit <- 1, Faults <- {}, poster <- drafter, post <- posting,
    policy <- regionPolicy, tasks <- newTask, keys <- createKeys,
    violations <- violationsLogged
Renewed == INSTANCE TaskCreation WITH
    Drafts <- <<[PlainDraft EXCEPT !.home = TRUE, !.phrase = TRUE, !.heuristic = 40],
    [PlainDraft EXCEPT !.price = 0, !.payout = -1, !.words = "plain"]>>, Keys <- {},
    NoKey <- "nokey", Requests <- {1}, Policies <- <<[PlainPolicy EXCEPT !.risks = {"LOW",
    "HIGH"}], [PlainPolicy EXCEPT !.risks = {"LOW"}]>>, Posters <- {[plan |-> "premium",
    lapsed |-> FALSE, entitled |-> FALSE, hold |-> FALSE]},
    Changes <- {"renew", "lapse", "policy", "forget"}, Hustlers <- {}, Skill <- <<>>,
    Runs <- {}, InstantOn <- FALSE, SurgeOn <- FALSE, PostLimit <- 1, Faults <- {"count"},
    poster <- drafter, post <- posting, policy <- regionPolicy, tasks <- newTask,
    keys <- createKeys, violations <- violationsLogged
Searching == INSTANCE TaskCreation WITH
    Drafts <- <<[PlainDraft EXCEPT !.instant = TRUE]>>, Keys <- {}, NoKey <- "nokey",
    Requests <- {1}, Policies <- <<[PlainPolicy EXCEPT !.risks = {"LOW", "HIGH"}],
    [PlainPolicy EXCEPT !.risks = {"LOW"}]>>, Posters <- {[plan |-> "premium",
    lapsed |-> FALSE, entitled |-> FALSE, hold |-> FALSE]}, Changes <- {},
    Hustlers <- {"h1"},
    Skill <- [h1 |-> [tier |-> 1, hold |-> FALSE, pro |-> TRUE, entitled |-> FALSE]],
    Runs <- {1, 2}, InstantOn <- TRUE, SurgeOn <- TRUE, PostLimit <- 1, Faults <- {},
    poster <- drafter, post <- posting, policy <- regionPolicy, tasks <- newTask,
    keys <- createKeys, violations <- violationsLogged
Inviting == INSTANCE TaskCreation WITH
    Drafts <- <<[PlainDraft EXCEPT !.instant = TRUE, !.home = TRUE]>>, Keys <- {},
    NoKey <- "nokey", Requests <- {1}, Policies <- <<[PlainPolicy EXCEPT !.risks = {"LOW",
    "HIGH"}], [PlainPolicy EXCEPT !.risks = {"LOW"}]>>, Posters <- {[plan |-> "premium",
    lapsed |-> FALSE, entitled |-> FALSE, hold |-> FALSE]}, Changes <- {},
    Hustlers <- {"h1", "h2"}, Skill <- [h1 |-> [tier |-> 2, hold |-> FALSE, pro |-> TRUE,
    entitled |-> FALSE], h2 |-> [tier |-> 3, hold |-> FALSE, pro |-> TRUE,
    entitled |-> FALSE]], Runs <- {1}, InstantOn <- TRUE, SurgeOn <- TRUE, PostLimit <- 1,
    Faults <- {"match", "announce"}, poster <- drafter, post <- posting,
    policy <- regionPolicy, tasks <- newTask, keys <- createKeys,
    violations <- violationsLogged

\* Calls of language models: two calls of several routes, answers that are no JSON, two
\* responses to an answer, two calls within budgets, two submissions of onboarding.
Generating == INSTANCE AICalls WITH
    Calls <- {"c", "d"}, Requests <- {[chain |-> <<"groq", "openai">>, prompt |-> "m",
    user |-> "u", kept |-> TRUE, observed |-> TRUE], [chain |-> <<"openai">>,
    prompt |-> "m", user |-> "u", kept |-> TRUE, observed |-> TRUE], [chain |-> <<"groq">>,
    prompt |-> "m", user |-> "v", kept |-> TRUE, observed |-> FALSE]}, Contents <- {"good"},
    Responders <- {}, Fields <- {"title"}, Routed <- {}, AgentOf <- <<>>, Fallbacks <- <<>>,
    Limits <- [agent |-> 1, user |-> 1, all |-> 1], Cost <- 1, Retries <- 0,
    Submissions <- {}, Faults <- {"keep", "record"}, cache <- answersKept, call <- aiCall,
    crowded <- crowdedBudget, role <- inferredRole
Parsing == INSTANCE AICalls WITH
    Calls <- {"c", "d"}, Requests <- {[chain |-> <<"groq">>, prompt |-> "m", user |-> "u",
    kept |-> TRUE, observed |-> TRUE], [chain |-> <<"groq">>, prompt |-> "m", user |-> "u",
    kept |-> FALSE, observed |-> TRUE]}, Contents <- {"good", "bad"}, Responders <- {},
    Fields <- {"title"}, Routed <- {}, AgentOf <- <<>>, Fallbacks <- <<>>,
    Limits <- [agent |-> 1, user |-> 1, all |-> 1], Cost <- 1, Retries <- 0,
    Submissions <- {}, Faults <- {}, cache <- answersKept, call <- aiCall,
    crowded <- crowdedBudget, role <- inferredRole
Answering == INSTANCE AICalls WITH
    Calls <- {"c"}, Requests <- {[chain |-> <<"groq">>, prompt |-> "m", user |-> "u",
    kept |-> FALSE, observed |-> TRUE]}, Contents <- {"good"}, Responders <- {"r", "s"},
    Fields <- {"title", "price"}, Routed <- {}, AgentOf <- <<>>, Fallbacks <- <<>>,
    Limits <- [agent |-> 1, user |-> 1, all |-> 1], Cost <- 1, Retries <- 0,
    Submissions <- {}, Faults <- {}, cache <- answersKept, call <- aiCall,
    crowded <- crowdedBudget, role <- inferredRole
Budgeting == INSTANCE AICalls WITH
    Calls <- {}, Requests <- {}, Contents <- {"good"}, Responders <- {},
    Fields <- {"title"}, Routed <- {"c", "d"}, AgentOf <- [c |-> "scoper", d |-> "judge"],
    Fallbacks <- [scoper |-> <<"groq", "openai">>, judge |-> <<"groq">>],
    Limits <- [agent |-> 2, user |-> 1, all |-> 2], Cost <- 1, Retries <- 1,
    Submissions <- {}, Faults <- {}, cache <- answersKept, call <- aiCall,
    crowded <- crowdedBudget, role <- inferredRole
Untracked == INSTANCE AICalls WITH
    Calls <- {}, Requests <- {}, Contents <- {"good"}, Responders <- {},
    Fields <- {"title"}, Routed <- {"c", "d"}, AgentOf <- [c |-> "scoper", d |-> "judge"],
    Fallbacks <- [scoper |-> <<"groq">>, judge |-> <<"groq">>],
    Limits <- [agent |-> 1, user |-> 2, all |-> 1], Cost <- 1, Retries <- 0,
    Submissions <- {}, Faults <- {"track"}, cache <- answersKept, call <- aiCall,
    crowded <- crowdedBudget, role <- inferredRole
Onboarding == INSTANCE AICalls WITH
    Calls <- {}, Requests <- {}, Contents <- {"good"}, Responders <- {},
    Fields <- {"title"}, Routed <- {}, AgentOf <- <<>>, Fallbacks <- <<>>,
    Limits <- [agent |-> 1, user |-> 1, all |-> 1], Cost <- 1, Retries <- 0,
    Submissions <- {"first", "again"}, Faults <- {"event", "job", "start", "proposal",
    "decision", "complete", "user", "die"}, cache <- answersKept, call <- aiCall,
    crowded <- crowdedBudget, role <- inferredRole

\* Opinions: advice about a dispute that goes on, by rules and by a model; assessments of one
\* dispute; seven records of workers and three events of each.
Scoring == INSTANCE Opinions WITH
    Amounts <- {6000}, Openers <- {"poster"}, Senders <- {},
    Histories <- {[disputes |-> 0, tier |-> 2]}, Advices <- {}, Kinds <- {}, Answers <- {},
    Profiles <- {[NewRecord EXCEPT !.done = 1, !.cancelled = 9, !.disputes = 1],
         [NewRecord EXCEPT !.done = 10, !.ratings = <<3, 3, 3, 5, 5, 4>>, !.verified = TRUE,
    !.tier = 2, !.paired = 4],      [NewRecord EXCEPT !.done = 24, !.ratings = <<5, 5, 5, 5,
    4, 4>>, !.verified = TRUE, !.tier = 3, !.age = 181],      [NewRecord EXCEPT !.done = 24,
    !.active = 1, !.fresh = 1, !.ratings = <<5, 5, 5, 5, 4, 4, 4, 4>>, !.verified = TRUE,
    !.tier = 3, !.age = 180],      [NewRecord EXCEPT !.done = 9, !.ratings = <<5, 5, 5, 1,
    5, 5, 4, 4>>],      [NewRecord EXCEPT !.done = 3, !.active = 2, !.fresh = 3,
    !.prior = 1, !.denied = 1, !.cancelled = 1, !.ratings = <<5, 5, 5, 5>>],
         [NewRecord EXCEPT !.done = 3, !.active = 1, !.fresh = 1, !.prior = 1, !.denied = 1,
    !.cancelled = 1, !.ratings = <<1, 1, 1, 4>>]}, Stars <- {1, 5}, MaxEvents <- 3,
    case <- disputeCase, standing <- workRecord, events <- recordEvents
Mediating == INSTANCE Opinions WITH
    Amounts <- {4000, 20001}, Openers <- {"poster"}, Senders <- {"poster"},
    Histories <- {[disputes |-> 0, tier |-> 2]}, Advices <- {"a"},
    Kinds <- {"analysis", "questions"}, Answers <- {}, Profiles <- {NewRecord}, Stars <- {},
    MaxEvents <- 0, case <- disputeCase, standing <- workRecord, events <- recordEvents
Consulting == INSTANCE Opinions WITH
    Amounts <- {4000}, Openers <- {"poster"}, Senders <- {},
    Histories <- {[disputes |-> 0, tier |-> 2]}, Advices <- {"a"}, Kinds <- {"analysis"},
    Answers <- {[action |-> "SPLIT", ratio |-> <<0, 0>>, faults |-> <<0, 0, 0>>,
    confidence |-> 40, escalate |-> FALSE],      [action |-> "SPLIT", ratio |-> <<60, 60>>,
    faults |-> <<50, 50, 20>>, confidence |-> 40, escalate |-> FALSE],
         [action |-> "REFUND", ratio |-> <<>>, faults |-> <<33, 33, 33>>, confidence |-> 40,
    escalate |-> FALSE],      [action |-> "SPLIT", ratio |-> <<70, 29>>, faults |-> <<10,
    10, 10>>, confidence |-> 40, escalate |-> TRUE],      [action |-> "SPLIT",
    ratio |-> <<100, 33>>, faults |-> <<90, 90, 100>>, confidence |-> 40,
    escalate |-> TRUE],      [action |-> "SPLIT", ratio |-> <<>>, faults |-> <<90, 90,
    100>>, confidence |-> 40, escalate |-> TRUE]}, Profiles <- {NewRecord}, Stars <- {},
    MaxEvents <- 0, case <- disputeCase, standing <- workRecord, events <- recordEvents
Assessing == INSTANCE Opinions WITH
    Amounts <- {6000}, Openers <- {"poster"}, Senders <- {"worker"},
    Histories <- {[disputes |-> 0, tier |-> 2]}, Advices <- {"a", "b"},
    Kinds <- {"escalation"}, Answers <- {}, Profiles <- {NewRecord}, Stars <- {},
    MaxEvents <- 0, case <- disputeCase, standing <- workRecord, events <- recordEvents

\* Operators and failed deliveries: two who claim a cluster and give it back, two who schedule
\* and call off one more attempt, one whose attempts fail, one whose notification expires.
Clustered == INSTANCE Operations WITH
    Admins <- {"a1", "a2"}, OwnerKeys <- {"k1", "k2", "k3"}, ActionKeys <- {},
    Deliveries <- {"d1"}, Base <- 3, Ceiling <- 5, Expires <- FALSE, Faults <- {},
    delivery <- failedDelivery, owner <- clusterOwner, claims <- claimEvents,
    actions <- retryEvents
Retrying == INSTANCE Operations WITH
    Admins <- {"a1", "a2"}, OwnerKeys <- {}, ActionKeys <- {"k1", "k2"},
    Deliveries <- {"d1"}, Base <- 4, Ceiling <- 5, Expires <- FALSE, Faults <- {"queue"},
    delivery <- failedDelivery, owner <- clusterOwner, claims <- claimEvents,
    actions <- retryEvents
Exhausting == INSTANCE Operations WITH
    Admins <- {"a1"}, OwnerKeys <- {}, ActionKeys <- {"k1", "k2", "k3"},
    Deliveries <- {"d1"}, Base <- 3, Ceiling <- 5, Expires <- FALSE,
    Faults <- {"queue", "mark", "bounce"}, delivery <- failedDelivery,
    owner <- clusterOwner, claims <- claimEvents, actions <- retryEvents
Outdated == INSTANCE Operations WITH
    Admins <- {"a1"}, OwnerKeys <- {"k1"}, ActionKeys <- {"k1", "k2"}, Deliveries <- {"d1"},
    Base <- 3, Ceiling <- 5, Expires <- TRUE, Faults <- {"queue"},
    delivery <- failedDelivery, owner <- clusterOwner, claims <- claimEvents,
    actions <- retryEvents

\* Safety of a task: three reports of a device sent by two calls, and what it is told of them;
\* check-ins of both participants; a case two operators answer.
Reporting == INSTANCE SafetyCases WITH
    Reports <- {SafetyReport("worker", 1, "hashed", 1, 1, FALSE),
         SafetyReport("worker", 2, "hashed", 2, 1, FALSE),      SafetyReport("worker", 2,
    "sequenced", 1, 1, FALSE)}, Calls <- {"c1", "c2"}, Probes <- {}, Checkins <- {},
    Admins <- {}, Messages <- {}, MaxCases <- 2, MaxVersion <- 2, Leaves <- TRUE,
    task <- safetyTask, cases <- safetyCases, call <- reportCall, checkin <- checkins,
    due <- overdue, message <- contactEvents, aged <- agedReports, probe <- probes,
    told <- toldDevices
AskingBack == INSTANCE SafetyCases WITH
    Reports <- {SafetyReport("worker", 1, "hashed", 1, 1, FALSE),
         SafetyReport("worker", 2, "hashed", 2, 1, FALSE),      SafetyReport("worker", 2,
    "sequenced", 1, 1, FALSE)}, Calls <- {"c1"}, Probes <- {"p1"}, Checkins <- {},
    Admins <- {}, Messages <- {}, MaxCases <- 2, MaxVersion <- 2, Leaves <- TRUE,
    task <- safetyTask, cases <- safetyCases, call <- reportCall, checkin <- checkins,
    due <- overdue, message <- contactEvents, aged <- agedReports, probe <- probes,
    told <- toldDevices
CheckingIn == INSTANCE SafetyCases WITH
    Reports <- {}, Calls <- {"c1"}, Probes <- {}, Checkins <- {[by |-> "poster", n |-> 1],
    [by |-> "worker", n |-> 1], [by |-> "worker", n |-> 2]}, Admins <- {}, Messages <- {},
    MaxCases <- 3, MaxVersion <- 2, Leaves <- TRUE, task <- safetyTask,
    cases <- safetyCases, call <- reportCall, checkin <- checkins, due <- overdue,
    message <- contactEvents, aged <- agedReports, probe <- probes, told <- toldDevices
CaseWork == INSTANCE SafetyCases WITH
    Reports <- {SafetyReport("worker", 1, "online", 0, 1, TRUE)}, Calls <- {"c1"},
    Probes <- {}, Checkins <- {[by |-> "poster", n |-> 1]}, Admins <- {"a1", "a2"},
    Messages <- {"m1", "m2"}, MaxCases <- 2, MaxVersion <- 1, Leaves <- TRUE,
    task <- safetyTask, cases <- safetyCases, call <- reportCall, checkin <- checkins,
    due <- overdue, message <- contactEvents, aged <- agedReports, probe <- probes,
    told <- toldDevices

\* Two requests about one task; one, with moderation and an erasure; neighbours.
Rating == INSTANCE Reputation WITH
    Tasks <- {"t1"}, Stars <- {1, 5}, Reviews <- {"k"}, Callers <- {"c", "d"},
    Moderated <- FALSE, Erasing <- FALSE, Neighbours <- {}, rating <- taskRatings,
    late <- lateTasks, lock <- ratingLock, call <- ratingCall, evidence <- ratingEvidence,
    erased <- erasedSides, members <- localMembers, writing <- recommenders,
    advice <- recommended, signal <- signals, appeal <- signalAppeals,
    met <- metRecommenders
RatingHidden == INSTANCE Reputation WITH
    Tasks <- {"t1"}, Stars <- {1}, Reviews <- {}, Callers <- {"c"}, Moderated <- TRUE,
    Erasing <- TRUE, Neighbours <- {}, rating <- taskRatings, late <- lateTasks,
    lock <- ratingLock, call <- ratingCall, evidence <- ratingEvidence,
    erased <- erasedSides, members <- localMembers, writing <- recommenders,
    advice <- recommended, signal <- signals, appeal <- signalAppeals,
    met <- metRecommenders
Recommending == INSTANCE Reputation WITH
    Tasks <- {}, Stars <- {1}, Reviews <- {}, Callers <- {}, Moderated <- FALSE,
    Erasing <- FALSE, Neighbours <- {"a", "b"}, rating <- taskRatings, late <- lateTasks,
    lock <- ratingLock, call <- ratingCall, evidence <- ratingEvidence,
    erased <- erasedSides, members <- localMembers, writing <- recommenders,
    advice <- recommended, signal <- signals, appeal <- signalAppeals,
    met <- metRecommenders

\* The constants are as the modules assume.
Assumptions ==
    /\ Penalties!StandingAssumption /\ Overruling!StandingAssumption
    /\ Appeals!StandingAssumption
    /\ Texting!ModerationAssumption /\ Reviewing!ModerationAssumption
    /\ Picturing!ModerationAssumption
    /\ Competing!OffersAssumption /\ Lapsing!OffersAssumption /\ Juggling!OffersAssumption
    /\ Submitting!CredentialsAssumption /\ Screening!CredentialsAssumption
    /\ Settling!TestProvidersAssumption /\ Verifying!TestProvidersAssumption
    /\ Seeking!TestProvidersAssumption /\ Overwriting!TestProvidersAssumption
    /\ Accepting!ProofSignalsAssumption /\ Analysing!ProofSignalsAssumption
    /\ Forgetting!PersonalDataAssumption /\ Cooling!PersonalDataAssumption
    /\ Devices!InboxAssumption /\ Settings!InboxAssumption
    /\ Failing!StripeCallsAssumption /\ Keying!StripeCallsAssumption
    /\ Hooking!StripeCallsAssumption /\ Breaking!StripeCallsAssumption
    /\ Ranking!AccountControlAssumption /\ Climbing!AccountControlAssumption
    /\ Suspecting!AccountControlAssumption /\ Posting!AccountControlAssumption
    /\ Ringing!AccountControlAssumption /\ Barring!AccountControlAssumption
    /\ Dispatching!LiquidityAssumption /\ Growing!LiquidityAssumption
    /\ Colliding!LiquidityAssumption /\ Certifying!LiquidityAssumption
    /\ Keyed!TaskCreationAssumption /\ Renewed!TaskCreationAssumption
    /\ Searching!TaskCreationAssumption /\ Inviting!TaskCreationAssumption
    /\ Generating!AICallsAssumption /\ Parsing!AICallsAssumption /\ Answering!AICallsAssumption
    /\ Budgeting!AICallsAssumption /\ Untracked!AICallsAssumption
    /\ Onboarding!AICallsAssumption
    /\ Scoring!OpinionsAssumption /\ Mediating!OpinionsAssumption
    /\ Consulting!OpinionsAssumption /\ Assessing!OpinionsAssumption
    /\ Clustered!OperationsAssumption /\ Retrying!OperationsAssumption
    /\ Exhausting!OperationsAssumption /\ Outdated!OperationsAssumption
    /\ Reporting!SafetyAssumption /\ AskingBack!SafetyAssumption /\ CheckingIn!SafetyAssumption
    /\ CaseWork!SafetyAssumption
    /\ Rating!ReputationAssumption /\ RatingHidden!ReputationAssumption
    /\ Recommending!ReputationAssumption
ASSUME ConductAssumption == Assumptions

standingVars == <<tier, hold, banned, status, ledger, refusals, recent, evidence, changes,
    promo, decision, appeal>>
messageVars == <<taskState, message, sending, todo, queue, review, reviews, objection,
    reports, told, read, lost>>
offerVars == <<state, worker, terms, escrow, fit, shown, live, counter, lapsed, deciding,
    overlapped>>
credentialVars == <<today, submitting, paper, consent, check, notice, contest, plea,
    profile, owed, missed, together>>
providerVars == <<intent, held, payoutReady, destination, transfer, settler, idcase,
    pointed, verified, report, background, seeker, crossed, due>>
signalVars == <<biometric, place, proofState, reviewable, analysis, mark, toldAdmins,
    opinion, call, lock, erased, overtaken, torn, crowded>>
personalVars == <<rows, heldKinds, session, dataErased, failed, request, again, file, stamp,
    allowed, restarts>>
inboxVars == <<tokens, owner, registering, push, shared, unordered, prefs, saving, asked,
    address, email, note, moves>>
stripecallVars == <<breaker, elapsed, straggled, caller, madeAtStripe, stripeKeys, forgets,
    hookEvent, hook, handled, failRow, failJob, booked, toldFailure>>
accountVars == <<barred, sessionCache, marker, signedOut, userCall, order, left, unmarked,
    crossedOrders, role, change, raced, detection, suspectStatus, score, suspectTask,
    suspectEscrow, passed, toldSuspects>>
liquidityVars == <<cell, measured, greensThen, cellTask, greensSeen, sharedCell, expansion,
    witness, viewed, agreed, testTerms, rewritten, edits>>
creatingVars == <<drafter, posting, regionPolicy, newTask, createKeys, violationsLogged,
    wave, invited, alerted, owing, heldThen>>
aicallsVars == <<answersKept, aiCall, observed, replicated, response, outcomes, routed,
    spent, billed, crowdedBudget, submission, inferredRole>>
opinionsVars == <<disputeCase, exhibits, advice, workRecord, recordEvents>>
operatingVars == <<failedDelivery, clusterOwner, claimEvents, retryEvents, cancelling,
    recovery, outrun>>
safetyVars == <<safetyTask, safetyCases, reportCall, checkins, overdue, contactEvents,
    agedReports, probes, toldDevices, misread>>
reputationVars == <<taskRatings, lateTasks, ratingLock, ratingCall, ratingEvidence,
    erasedSides, localMembers, recommenders, recommended, signals, signalAppeals,
    metRecommenders>>

Init ==
    /\ part \in {"penalties", "overruling", "appeals", "texting", "reviewing",
                 "picturing", "competing", "lapsing", "juggling", "submitting_papers",
                 "screening", "settling", "verifying", "seeking", "overwriting",
                 "accepting", "analysing", "forgetting", "cooling", "devices",
                 "settings", "failing", "keying", "hooking", "breaking", "ranking",
                 "climbing", "suspecting", "posting", "ringing", "barring",
                 "dispatching", "growing", "colliding", "certifying", "keyed",
                 "renewed", "searching", "inviting", "generating", "parsing",
                 "answering", "budgeting", "untracked", "onboarding", "scoring",
                 "mediating", "consulting", "assessing", "clustered", "retrying",
                 "exhausting", "outdated", "reporting", "askingBack", "checkingIn",
                 "caseWork", "rating", "ratingHidden", "recommending"}
    /\ IF part = "penalties" THEN Penalties!Init
       ELSE IF part = "overruling" THEN Overruling!Init
       ELSE Appeals!Init
    /\ IF part = "texting" THEN Texting!Init
       ELSE IF part = "reviewing" THEN Reviewing!Init
       ELSE Picturing!Init
    /\ IF part = "competing" THEN Competing!Init
       ELSE IF part = "lapsing" THEN Lapsing!Init
       ELSE Juggling!Init
    /\ IF part = "submitting_papers" THEN Submitting!Init
       ELSE Screening!Init
    /\ IF part = "settling" THEN Settling!Init
       ELSE IF part = "verifying" THEN Verifying!Init
       ELSE IF part = "seeking" THEN Seeking!Init
       ELSE Overwriting!Init
    /\ IF part = "accepting" THEN Accepting!Init
       ELSE Analysing!Init
    /\ IF part = "forgetting" THEN Forgetting!Init
       ELSE Cooling!Init
    /\ IF part = "devices" THEN Devices!Init
       ELSE Settings!Init
    /\ IF part = "failing" THEN Failing!Init
       ELSE IF part = "keying" THEN Keying!Init
       ELSE IF part = "hooking" THEN Hooking!Init
       ELSE Breaking!Init
    /\ IF part = "ranking" THEN Ranking!Init
       ELSE IF part = "climbing" THEN Climbing!Init
       ELSE IF part = "suspecting" THEN Suspecting!Init
       ELSE IF part = "posting" THEN Posting!Init
       ELSE IF part = "ringing" THEN Ringing!Init
       ELSE Barring!Init
    /\ IF part = "dispatching" THEN Dispatching!Init
       ELSE IF part = "growing" THEN Growing!Init
       ELSE IF part = "colliding" THEN Colliding!Init
       ELSE Certifying!Init
    /\ IF part = "keyed" THEN Keyed!Init
       ELSE IF part = "renewed" THEN Renewed!Init
       ELSE IF part = "searching" THEN Searching!Init
       ELSE Inviting!Init
    /\ IF part = "generating" THEN Generating!Init
       ELSE IF part = "parsing" THEN Parsing!Init
       ELSE IF part = "answering" THEN Answering!Init
       ELSE IF part = "budgeting" THEN Budgeting!Init
       ELSE IF part = "untracked" THEN Untracked!Init
       ELSE Onboarding!Init
    /\ IF part = "scoring" THEN Scoring!Init
       ELSE IF part = "mediating" THEN Mediating!Init
       ELSE IF part = "consulting" THEN Consulting!Init
       ELSE Assessing!Init
    /\ IF part = "clustered" THEN Clustered!Init
       ELSE IF part = "retrying" THEN Retrying!Init
       ELSE IF part = "exhausting" THEN Exhausting!Init
       ELSE Outdated!Init
    /\ IF part = "reporting" THEN Reporting!Init
       ELSE IF part = "askingBack" THEN AskingBack!Init
       ELSE IF part = "checkingIn" THEN CheckingIn!Init
       ELSE CaseWork!Init
    /\ IF part = "rating" THEN Rating!Init
       ELSE IF part = "ratingHidden" THEN RatingHidden!Init
       ELSE Recommending!Init

\* Only the part's own variables move.
Others(own) ==
    /\ own # "standing" => UNCHANGED standingVars
    /\ own # "message" => UNCHANGED messageVars
    /\ own # "offer" => UNCHANGED offerVars
    /\ own # "credential" => UNCHANGED credentialVars
    /\ own # "provider" => UNCHANGED providerVars
    /\ own # "signal" => UNCHANGED signalVars
    /\ own # "personal" => UNCHANGED personalVars
    /\ own # "inbox" => UNCHANGED inboxVars
    /\ own # "stripecall" => UNCHANGED stripecallVars
    /\ own # "account" => UNCHANGED accountVars
    /\ own # "liquidity" => UNCHANGED liquidityVars
    /\ own # "creating" => UNCHANGED creatingVars
    /\ own # "aicalls" => UNCHANGED aicallsVars
    /\ own # "opinions" => UNCHANGED opinionsVars
    /\ own # "operating" => UNCHANGED operatingVars
    /\ own # "safety" => UNCHANGED safetyVars
    /\ own # "reputation" => UNCHANGED reputationVars

Next ==
    \/ part = "penalties" /\ Penalties!Next /\ UNCHANGED part /\ Others("standing")
    \/ part = "overruling" /\ Overruling!Next /\ UNCHANGED part /\ Others("standing")
    \/ part = "appeals" /\ Appeals!Next /\ UNCHANGED part /\ Others("standing")
    \/ part = "texting" /\ Texting!Next /\ UNCHANGED part /\ Others("message")
    \/ part = "reviewing" /\ Reviewing!Next /\ UNCHANGED part /\ Others("message")
    \/ part = "picturing" /\ Picturing!Next /\ UNCHANGED part /\ Others("message")
    \/ part = "competing" /\ Competing!Next /\ UNCHANGED part /\ Others("offer")
    \/ part = "lapsing" /\ Lapsing!Next /\ UNCHANGED part /\ Others("offer")
    \/ part = "juggling" /\ Juggling!Next /\ UNCHANGED part /\ Others("offer")
    \/ part = "submitting_papers" /\ Submitting!Next /\ UNCHANGED part /\ Others("credential")
    \/ part = "screening" /\ Screening!Next /\ UNCHANGED part /\ Others("credential")
    \/ part = "settling" /\ Settling!Next /\ UNCHANGED part /\ Others("provider")
    \/ part = "verifying" /\ Verifying!Next /\ UNCHANGED part /\ Others("provider")
    \/ part = "seeking" /\ Seeking!Next /\ UNCHANGED part /\ Others("provider")
    \/ part = "overwriting" /\ Overwriting!Next /\ UNCHANGED part /\ Others("provider")
    \/ part = "accepting" /\ Accepting!Next /\ UNCHANGED part /\ Others("signal")
    \/ part = "analysing" /\ Analysing!Next /\ UNCHANGED part /\ Others("signal")
    \/ part = "forgetting" /\ Forgetting!Next /\ UNCHANGED part /\ Others("personal")
    \/ part = "cooling" /\ Cooling!Next /\ UNCHANGED part /\ Others("personal")
    \/ part = "devices" /\ Devices!Next /\ UNCHANGED part /\ Others("inbox")
    \/ part = "settings" /\ Settings!Next /\ UNCHANGED part /\ Others("inbox")
    \/ part = "failing" /\ Failing!Next /\ UNCHANGED part /\ Others("stripecall")
    \/ part = "keying" /\ Keying!Next /\ UNCHANGED part /\ Others("stripecall")
    \/ part = "hooking" /\ Hooking!Next /\ UNCHANGED part /\ Others("stripecall")
    \/ part = "breaking" /\ Breaking!Next /\ UNCHANGED part /\ Others("stripecall")
    \/ part = "ranking" /\ Ranking!Next /\ UNCHANGED part /\ Others("account")
    \/ part = "climbing" /\ Climbing!Next /\ UNCHANGED part /\ Others("account")
    \/ part = "suspecting" /\ Suspecting!Next /\ UNCHANGED part /\ Others("account")
    \/ part = "posting" /\ Posting!Next /\ UNCHANGED part /\ Others("account")
    \/ part = "ringing" /\ Ringing!Next /\ UNCHANGED part /\ Others("account")
    \/ part = "barring" /\ Barring!Next /\ UNCHANGED part /\ Others("account")
    \/ part = "dispatching" /\ Dispatching!Next /\ UNCHANGED part /\ Others("liquidity")
    \/ part = "growing" /\ Growing!Next /\ UNCHANGED part /\ Others("liquidity")
    \/ part = "colliding" /\ Colliding!Next /\ UNCHANGED part /\ Others("liquidity")
    \/ part = "certifying" /\ Certifying!Next /\ UNCHANGED part /\ Others("liquidity")
    \/ part = "keyed" /\ Keyed!Next /\ UNCHANGED part /\ Others("creating")
    \/ part = "renewed" /\ Renewed!Next /\ UNCHANGED part /\ Others("creating")
    \/ part = "searching" /\ Searching!Next /\ UNCHANGED part /\ Others("creating")
    \/ part = "inviting" /\ Inviting!Next /\ UNCHANGED part /\ Others("creating")
    \/ part = "generating" /\ Generating!Next /\ UNCHANGED part /\ Others("aicalls")
    \/ part = "parsing" /\ Parsing!Next /\ UNCHANGED part /\ Others("aicalls")
    \/ part = "answering" /\ Answering!Next /\ UNCHANGED part /\ Others("aicalls")
    \/ part = "budgeting" /\ Budgeting!Next /\ UNCHANGED part /\ Others("aicalls")
    \/ part = "untracked" /\ Untracked!Next /\ UNCHANGED part /\ Others("aicalls")
    \/ part = "onboarding" /\ Onboarding!Next /\ UNCHANGED part /\ Others("aicalls")
    \/ part = "scoring" /\ Scoring!Next /\ UNCHANGED part /\ Others("opinions")
    \/ part = "mediating" /\ Mediating!Next /\ UNCHANGED part /\ Others("opinions")
    \/ part = "consulting" /\ Consulting!Next /\ UNCHANGED part /\ Others("opinions")
    \/ part = "assessing" /\ Assessing!Next /\ UNCHANGED part /\ Others("opinions")
    \/ part = "clustered" /\ Clustered!Next /\ UNCHANGED part /\ Others("operating")
    \/ part = "retrying" /\ Retrying!Next /\ UNCHANGED part /\ Others("operating")
    \/ part = "exhausting" /\ Exhausting!Next /\ UNCHANGED part /\ Others("operating")
    \/ part = "outdated" /\ Outdated!Next /\ UNCHANGED part /\ Others("operating")
    \/ part = "reporting" /\ Reporting!Next /\ UNCHANGED part /\ Others("safety")
    \/ part = "askingBack" /\ AskingBack!Next /\ UNCHANGED part /\ Others("safety")
    \/ part = "checkingIn" /\ CheckingIn!Next /\ UNCHANGED part /\ Others("safety")
    \/ part = "caseWork" /\ CaseWork!Next /\ UNCHANGED part /\ Others("safety")
    \/ part = "rating" /\ Rating!Next /\ UNCHANGED part /\ Others("reputation")
    \/ part = "ratingHidden" /\ RatingHidden!Next /\ UNCHANGED part /\ Others("reputation")
    \/ part = "recommending" /\ Recommending!Next /\ UNCHANGED part /\ Others("reputation")

vars == <<part, standingVars, messageVars, offerVars, credentialVars, providerVars,
    signalVars, personalVars, inboxVars, stripecallVars, accountVars, liquidityVars,
    creatingVars, aicallsVars, opinionsVars, operatingVars, safetyVars, reputationVars>>

\* What the modules assume, for the parts whose liveness is checked.
Fairness ==
    /\ \A d \in {"d1", "d2"} : WF_standingVars(part = "penalties" /\ Penalties!Penalise(d))
    /\ \A m \in Texting!Messages : WF_messageVars(part = "texting" /\ Texting!GoesOn(m))
    /\ WF_messageVars(part = "texting" /\ Texting!Work("r1"))
    /\ \A m \in Reviewing!Messages : WF_messageVars(part = "reviewing" /\ Reviewing!GoesOn(m))
    /\ WF_messageVars(part = "picturing" /\ Picturing!GoesOn("p1"))
    /\ \A s \in {"job", "router"} : WF_providerVars(part = "settling" /\ Settling!Settling(s))
    /\ WF_safetyVars(part = "checkingIn" /\ CheckingIn!EscalateDue)

Spec == Init /\ [][Next]_vars /\ Fairness

-----------------------------------------------------------------------------
\* The properties, each as its module states it, in the parts it is about.

\* Every variable stays in its type.
TypeOK ==
    /\ part = "penalties" => Penalties!TypeOK
    /\ part = "overruling" => Overruling!TypeOK
    /\ part = "appeals" => Appeals!TypeOK
    /\ part = "texting" => Texting!TypeOK
    /\ part = "reviewing" => Reviewing!TypeOK
    /\ part = "picturing" => Picturing!TypeOK
    /\ part = "competing" => Competing!TypeOK
    /\ part = "lapsing" => Lapsing!TypeOK
    /\ part = "juggling" => Juggling!TypeOK
    /\ part = "submitting_papers" => Submitting!TypeOK
    /\ part = "screening" => Screening!TypeOK
    /\ part = "settling" => Settling!TypeOK
    /\ part = "verifying" => Verifying!TypeOK
    /\ part = "seeking" => Seeking!TypeOK
    /\ part = "overwriting" => Overwriting!TypeOK
    /\ part = "accepting" => Accepting!TypeOK
    /\ part = "analysing" => Analysing!TypeOK
    /\ part = "forgetting" => Forgetting!TypeOK
    /\ part = "cooling" => Cooling!TypeOK
    /\ part = "devices" => Devices!TypeOK
    /\ part = "settings" => Settings!TypeOK
    /\ part = "failing" => Failing!TypeOK
    /\ part = "keying" => Keying!TypeOK
    /\ part = "hooking" => Hooking!TypeOK
    /\ part = "breaking" => Breaking!TypeOK
    /\ part = "ranking" => Ranking!TypeOK
    /\ part = "climbing" => Climbing!TypeOK
    /\ part = "suspecting" => Suspecting!TypeOK
    /\ part = "posting" => Posting!TypeOK
    /\ part = "ringing" => Ringing!TypeOK
    /\ part = "barring" => Barring!TypeOK
    /\ part = "dispatching" => Dispatching!TypeOK
    /\ part = "growing" => Growing!TypeOK
    /\ part = "colliding" => Colliding!TypeOK
    /\ part = "certifying" => Certifying!TypeOK
    /\ part = "keyed" => Keyed!TypeOK
    /\ part = "renewed" => Renewed!TypeOK
    /\ part = "searching" => Searching!TypeOK
    /\ part = "inviting" => Inviting!TypeOK
    /\ part = "generating" => Generating!TypeOK
    /\ part = "parsing" => Parsing!TypeOK
    /\ part = "answering" => Answering!TypeOK
    /\ part = "budgeting" => Budgeting!TypeOK
    /\ part = "untracked" => Untracked!TypeOK
    /\ part = "onboarding" => Onboarding!TypeOK
    /\ part = "scoring" => Scoring!TypeOK
    /\ part = "mediating" => Mediating!TypeOK
    /\ part = "consulting" => Consulting!TypeOK
    /\ part = "assessing" => Assessing!TypeOK
    /\ part = "clustered" => Clustered!TypeOK
    /\ part = "retrying" => Retrying!TypeOK
    /\ part = "exhausting" => Exhausting!TypeOK
    /\ part = "outdated" => Outdated!TypeOK
    /\ part = "reporting" => Reporting!TypeOK
    /\ part = "askingBack" => AskingBack!TypeOK
    /\ part = "checkingIn" => CheckingIn!TypeOK
    /\ part = "caseWork" => CaseWork!TypeOK
    /\ part = "rating" => Rating!TypeOK
    /\ part = "ratingHidden" => RatingHidden!TypeOK
    /\ part = "recommending" => Recommending!TypeOK

\* The trust ledger accounts for the tier.
LedgerIsAccount ==
    /\ part = "penalties" => Penalties!LedgerIsAccount
    /\ part = "overruling" => Overruling!LedgerIsAccount
    /\ part = "appeals" => Appeals!LedgerIsAccount

\* A dispute costs a tier once.
PenaltyOnce ==
    /\ part = "penalties" => Penalties!PenaltyOnce
    /\ part = "overruling" => Overruling!PenaltyOnce
    /\ part = "appeals" => Appeals!PenaltyOnce

\* An overturned refusal has given its tier.
OverturnedIsGranted ==
    /\ part = "overruling" => Overruling!OverturnedIsGranted
    /\ part = "appeals" => Appeals!OverturnedIsGranted

\* A decision has one appeal under review.
OneLiveAppeal ==
    /\ part = "overruling" => Overruling!OneLiveAppeal
    /\ part = "appeals" => Appeals!OneLiveAppeal

\* A tier is gained one at a time, by an account whose records support it.
EarnedStep ==
    /\ part = "penalties" => Penalties!EarnedStep
    /\ part = "overruling" => Overruling!EarnedStep
    /\ part = "appeals" => Appeals!EarnedStep

\* What was flagged is shown after a decision.
ShownAfterDecision ==
    /\ part = "texting" => Texting!ShownAfterDecision
    /\ part = "reviewing" => Reviewing!ShownAfterDecision
    /\ part = "picturing" => Picturing!ShownAfterDecision

\* What one reviewer decided is what is shown.
DecisionStands == part = "texting" => Texting!DecisionStands

\* A worker has a task on terms that worker was shown.
AssignedOnShownTerms ==
    /\ part = "competing" => Competing!AssignedOnShownTerms
    /\ part = "lapsing" => Lapsing!AssignedOnShownTerms
    /\ part = "juggling" => Juggling!AssignedOnShownTerms

\* A task has one approved counter, and is replaced when its money is back.
OneReplacement ==
    /\ part = "competing" => Competing!OneReplacement
    /\ part = "lapsing" => Lapsing!OneReplacement
    /\ part = "juggling" => Juggling!OneReplacement

\* A worker has too many tasks only after two overlapping assignments.
OverloadNeedsARace ==
    /\ part = "competing" => Competing!OverloadNeedsARace
    /\ part = "lapsing" => Lapsing!OverloadNeedsARace
    /\ part = "juggling" => Juggling!OverloadNeedsARace

\* Nothing about a worker changes under a reservation.
ReservedIsFit ==
    /\ part = "competing" => Competing!ReservedIsFit
    /\ part = "lapsing" => Lapsing!ReservedIsFit
    /\ part = "juggling" => Juggling!ReservedIsFit

\* Two papers of a kind are live only when submitted side by side.
DoubledNeedsARace == part = "submitting_papers" => Submitting!DoubledNeedsARace

\* A capability profile is behind its records for a reason.
BehindForAReason ==
    /\ part = "submitting_papers" => Submitting!BehindForAReason
    /\ part = "screening" => Screening!BehindForAReason

\* No refusal stands during a dispute.
PausedInDispute == part = "screening" => Screening!PausedInDispute

\* A refusal follows its notice.
RefusedAfterNotice == part = "screening" => Screening!RefusedAfterNotice

\* A settled payout is released on a paid transfer.
SettledIsReleased == part = "settling" => Settling!SettledIsReleased

\* A verified user has a verified case.
VerifiedIsBacked == part = "verifying" => Verifying!VerifiedIsBacked

\* Two screenings are active only after overlapping calls.
TwoChecksNeedARace == part = "seeking" => Seeking!TwoChecksNeedARace

\* A signal is available when it has scores.
ScoresAreAvailable ==
    /\ part = "accepting" => Accepting!ScoresAreAvailable
    /\ part = "analysing" => Analysing!ScoresAreAvailable

\* An accepted proof has a verdict.
AcceptedIsJudged == part = "accepting" => Accepting!AcceptedIsJudged

\* Reviews overlap only when their lock is lost.
ReviewsExclude == part = "accepting" => Accepting!ReviewsExclude

\* A flagged analysis waits for a person.
FlagIsMarked == part = "analysing" => Analysing!FlagIsMarked

\* A review is judged on its own analysis.
JudgedOnOwnScores == part = "accepting" => Accepting!JudgedOnOwnScores

\* Scores without consent come from a call under way.
UnwantedNeedsARace == part = "analysing" => Analysing!UnwantedNeedsARace

\* What an erasure left was kept or written again.
RemainsWereRewritten == part = "forgetting" => Forgetting!RemainsWereRewritten

\* An export has masked records after an erasure only.
MaskedAfterErasure == part = "forgetting" => Forgetting!MaskedAfterErasure

\* A cool-down lets one request through per process and restart.
CooldownPerProcess == part = "cooling" => Cooling!CooldownPerProcess

\* An erased account with no request under way stays erased.
NothingComesBack == part = "forgetting" => Forgetting!NothingComesBack

\* More devices than the cap come from overlapping registrations.
CapNeedsARace == part = "devices" => Devices!CapNeedsARace

\* A push reaches somebody else's device only after it was handed on.
LeakNeedsSharing == part = "devices" => Devices!LeakNeedsSharing

\* A preference has the value saved last.
SavedIsKept == part = "settings" => Settings!SavedIsKept

\* A second email needs a changed address.
TwoEmailsNeedAMove == part = "settings" => Settings!TwoEmailsNeedAMove

\* Quiet hours end, within a day.
QuietEnds == part = "settings" => Settings!QuietEnds

\* A half-open breaker that refuses awaits a probe.
RefusalAwaitsProbe == part = "breaking" => Breaking!RefusalAwaitsProbe

\* Too many probes come from calls sent before.
ProbesNeedAStraggler == part = "breaking" => Breaking!ProbesNeedAStraggler

\* Money is moved again only after its key has expired.
SameMoneyOnce == part = "keying" => Keying!SameMoneyOnce

\* An escrow has one intent per life of its key.
OneIntentPerEscrow == part = "keying" => Keying!OneIntentPerEscrow

\* A webhook's handler succeeds once.
HandledOnce == part = "hooking" => Hooking!HandledOnce

\* A failure is booked once.
FailureBookedOnce == part = "failing" => Failing!FailureBookedOnce

\* A failure's job that ends unbooked had nothing to book.
SilentEndIsIgnored == part = "failing" => Failing!SilentEndIsIgnored

\* The marker stops a barred account's cached session.
BarredIsStopped == part = "barring" => Barring!BarredIsStopped

\* A founder remains.
FoundersRemain ==
    /\ part = "ranking" => Ranking!FoundersRemain
    /\ part = "climbing" => Climbing!FoundersRemain

\* A cancelled suspect's task leaves no funded escrow.
CancelledIsSettled ==
    /\ part = "suspecting" => Suspecting!CancelledIsSettled
    /\ part = "posting" => Posting!CancelledIsSettled
    /\ part = "ringing" => Ringing!CancelledIsSettled

\* Who was told of a suspension is suspended.
ToldIsSuspended ==
    /\ part = "suspecting" => Suspecting!ToldIsSuspended
    /\ part = "posting" => Posting!ToldIsSuspended
    /\ part = "ringing" => Ringing!ToldIsSuspended

\* Roles rise and are replaced only by overlapping changes.
RoleMovesNeedARace ==
    /\ part = "ranking" => Ranking!RoleMovesNeedARace
    /\ part = "climbing" => Climbing!RoleMovesNeedARace

\* A suspect takes no task.
SuspectHasNoNewWork ==
    /\ part = "suspecting" => Suspecting!SuspectHasNoNewWork
    /\ part = "posting" => Posting!SuspectHasNoNewWork
    /\ part = "ringing" => Ringing!SuspectHasNoNewWork

\* What is shown as available is accepted, unless the zone has grown.
ShownIsAcceptable ==
    /\ part = "dispatching" => Dispatching!ShownIsAcceptable
    /\ part = "growing" => Growing!ShownIsAcceptable

\* Test work and other work do not meet.
KindsStayApart ==
    /\ part = "colliding" => Colliding!KindsStayApart
    /\ part = "certifying" => Certifying!KindsStayApart

\* An accepted test offer is lost for a reason.
LostForAReason == part = "certifying" => Certifying!LostForAReason

\* An expansion's cell waits for its floor.
ExpandedIsShut ==
    /\ part = "growing" => Growing!ExpandedIsShut
    /\ part = "colliding" => Colliding!ExpandedIsShut

\* A cell takes too much only in a race.
AcceptedWithinRules ==
    /\ part = "dispatching" => Dispatching!AcceptedWithinRules
    /\ part = "growing" => Growing!AcceptedWithinRules

\* A key makes one task.
OneTaskPerKey == part = "keyed" => Keyed!OneTaskPerKey

\* A repeated call conflicts for a reason.
ConflictHasReason == part = "keyed" => Keyed!ConflictHasReason

\* What is stored is within the region's policy.
QuotedWithinPolicy ==
    /\ part = "keyed" => Keyed!QuotedWithinPolicy
    /\ part = "renewed" => Renewed!QuotedWithinPolicy
    /\ part = "searching" => Searching!QuotedWithinPolicy
    /\ part = "inviting" => Inviting!QuotedWithinPolicy

\* A task that searches has a clock, unless its call has failed.
SearchHasClock ==
    /\ part = "searching" => Searching!SearchHasClock
    /\ part = "inviting" => Inviting!SearchHasClock

\* Who is invited may take the task.
InvitedMayTake ==
    /\ part = "searching" => Searching!InvitedMayTake
    /\ part = "inviting" => Inviting!InvitedMayTake

\* A suspicious phrase is remembered.
PhraseIsRemembered ==
    /\ part = "keyed" => Keyed!PhraseIsRemembered
    /\ part = "renewed" => Renewed!PhraseIsRemembered

\* A poster on hold gets a risky task in a race only.
HeldGetsNoRisk == part = "keyed" => Keyed!HeldGetsNoRisk

\* A search only widens.
SearchOnlyWidens ==
    /\ part = "searching" => Searching!SearchOnlyWidens
    /\ part = "inviting" => Inviting!SearchOnlyWidens

\* An answer of a model is observed before it is given.
GivenIsRecorded ==
    /\ part = "generating" => Generating!GivenIsRecorded
    /\ part = "parsing" => Parsing!GivenIsRecorded

\* A kept answer is its provider's, to that user and prompt.
CachedIsAscribed ==
    /\ part = "generating" => Generating!CachedIsAscribed
    /\ part = "parsing" => Parsing!CachedIsAscribed

\* The first response to an answer stands.
OutcomeIsFirst == part = "answering" => Answering!OutcomeIsFirst

\* A budget is overspent by calls side by side only.
OverspendNeedsACrowd ==
    /\ part = "budgeting" => Budgeting!OverspendNeedsACrowd
    /\ part = "untracked" => Untracked!OverspendNeedsACrowd

\* The counters of spending agree.
CountersAgree ==
    /\ part = "budgeting" => Budgeting!CountersAgree
    /\ part = "untracked" => Untracked!CountersAgree

\* An inferred role was proposed and decided.
RoleIsDecided == part = "onboarding" => Onboarding!RoleIsDecided

\* A job is left for a reason.
LeftJobHasReason == part = "onboarding" => Onboarding!LeftJobHasReason

\* The rules take a side in a dispute after it is decided.
SideIsTakenLate ==
    /\ part = "mediating" => Mediating!SideIsTakenLate
    /\ part = "consulting" => Consulting!SideIsTakenLate

\* Advised shares add up.
SharesAddUp ==
    /\ part = "mediating" => Mediating!SharesAddUp
    /\ part = "consulting" => Consulting!SharesAddUp

\* Assessments of one dispute agree.
AssessmentsAgree == part = "assessing" => Assessing!AssessmentsAgree

\* What goes badly for a worker raises the score rarely.
WorseRaisesScoreRarely == part = "scoring" => Scoring!WorseRaisesScoreRarely

\* A suspicion goes away by its opposite.
SuspicionNeedsItsOpposite == part = "scoring" => Scoring!SuspicionNeedsItsOpposite

\* A worker who may rise is advised to.
EligibleIsAdvised == part = "scoring" => Scoring!EligibleIsAdvised

\* The evidence explains who owns a cluster and how many attempts a delivery has.
EvidenceExplains ==
    /\ part = "clustered" => Clustered!EvidenceExplains
    /\ part = "retrying" => Retrying!EvidenceExplains
    /\ part = "exhausting" => Exhausting!EvidenceExplains
    /\ part = "outdated" => Outdated!EvidenceExplains

\* A retry is called off once.
CancelledOnce ==
    /\ part = "retrying" => Retrying!CancelledOnce
    /\ part = "exhausting" => Exhausting!CancelledOnce
    /\ part = "outdated" => Outdated!CancelledOnce

\* What was called off is not sent.
CancelledIsUnsent ==
    /\ part = "retrying" => Retrying!CancelledIsUnsent
    /\ part = "exhausting" => Exhausting!CancelledIsUnsent
    /\ part = "outdated" => Outdated!CancelledIsUnsent

\* What was sent is recorded as sent.
SentIsAccepted ==
    /\ part = "retrying" => Retrying!SentIsAccepted
    /\ part = "outdated" => Outdated!SentIsAccepted

\* Calling a retry off takes no attempt back.
CancelRewindsNothing ==
    /\ part = "retrying" => Retrying!CancelRewindsNothing
    /\ part = "exhausting" => Exhausting!CancelRewindsNothing
    /\ part = "outdated" => Outdated!CancelRewindsNothing

\* What a safety case says fits together.
CasesAreWhole ==
    /\ part = "reporting" => Reporting!CasesAreWhole
    /\ part = "askingBack" => AskingBack!CasesAreWhole
    /\ part = "checkingIn" => CheckingIn!CasesAreWhole
    /\ part = "caseWork" => CaseWork!CasesAreWhole

\* A device is told CONFLICT of what is recorded only when it was recorded meanwhile.
ConflictIsReal == part = "askingBack" => AskingBack!ConflictIsReal

\* A device is told that a report is confirmed only when it is.
ConfirmedIsRecorded == part = "askingBack" => AskingBack!ConfirmedIsRecorded

\* Reports kept on a device are recorded in their order.
OfflineInOrder ==
    /\ part = "reporting" => Reporting!OfflineInOrder
    /\ part = "askingBack" => AskingBack!OfflineInOrder

\* Nothing a safety case has come to is taken back.
CasesAdvance ==
    /\ part = "reporting" => Reporting!CasesAdvance
    /\ part = "askingBack" => AskingBack!CasesAdvance
    /\ part = "checkingIn" => CheckingIn!CasesAdvance
    /\ part = "caseWork" => CaseWork!CasesAdvance

\* The two ratings of a task appear together.
RevealedTogether == part = "rating" => Rating!RevealedTogether

\* A piece of evidence names a rating its poster gave.
EvidenceIsTrue ==
    /\ part = "rating" => Rating!EvidenceIsTrue
    /\ part = "ratingHidden" => RatingHidden!EvidenceIsTrue

\* Two live recommendations of each other, neither held, crossed.
MutualNeedsARace == part = "recommending" => Recommending!MutualNeedsARace

\* A rating once given stays.
RatingsStay ==
    /\ part = "rating" => Rating!RatingsStay
    /\ part = "ratingHidden" => RatingHidden!RatingsStay

\* Work that somebody counts on: penalties of an account above tier 0 with an attempt
\* left, a message sent (a text, a photo), a payable test payout, and a check-in nobody
\* confirmed.
WorkIsBegun(k) ==
    \/ part = "penalties" /\ tier # 0 /\ Penalties!Alive(<<"d1", "d2">>[k])
    \/ part = "texting" /\ Texting!Begun(<<"t1", "p1">>[k])
    \/ part = "reviewing" /\ Reviewing!Begun(<<"t1", "t2">>[k])
    \/ part = "picturing" /\ k = 1 /\ Picturing!Begun("p1")
    \/ part = "settling" /\ k = 1 /\ Settling!Payable
    \/ part = "checkingIn" /\ k = 2
       /\ \E i \in DOMAIN overdue : overdue[i] = [by |-> "worker", n |-> 1]

\* Its end: the ledger has the penalty; the call is refused, or all of its message is
\* queued for review unless an insertion failed; the payout is released or its escrow
\* refunded; the check-in is a case, unless the worker has left.
WorkIsEnded(k) ==
    \/ part = "penalties" /\ Penalties!Recorded(<<"d1", "d2">>[k])
    \/ part = "texting" /\ Texting!Queued(<<"t1", "p1">>[k])
    \/ part = "reviewing" /\ Reviewing!Queued(<<"t1", "t2">>[k])
    \/ part = "picturing" /\ k = 1 /\ Picturing!Queued("p1")
    \/ part = "settling" /\ k = 1 /\ Settling!Ended
    \/ part = "checkingIn" /\ k = 2
       /\ (checkins[[by |-> "worker", n |-> 1]].status = "escalated" \/ ~safetyTask.worker)

\* The above in one, by what they promise.
\* Records that are kept apart agree with one another.
RecordsAgree ==
    LedgerIsAccount /\ PenaltyOnce /\ OverturnedIsGranted /\ OneLiveAppeal /\ ShownAfterDecision
    /\ DecisionStands /\ AssignedOnShownTerms /\ OneReplacement /\ OverloadNeedsARace /\
    ReservedIsFit /\ DoubledNeedsARace /\ BehindForAReason /\ PausedInDispute /\
    RefusedAfterNotice /\ SettledIsReleased /\ VerifiedIsBacked /\ TwoChecksNeedARace /\
    ScoresAreAvailable /\ AcceptedIsJudged /\ ReviewsExclude /\ FlagIsMarked /\
    RemainsWereRewritten /\ MaskedAfterErasure /\ CooldownPerProcess /\ CapNeedsARace /\
    LeakNeedsSharing /\ SavedIsKept /\ TwoEmailsNeedAMove /\ QuietEnds /\ RefusalAwaitsProbe
    /\ ProbesNeedAStraggler /\ SameMoneyOnce /\ OneIntentPerEscrow /\ HandledOnce /\
    FailureBookedOnce /\ BarredIsStopped /\ FoundersRemain /\ CancelledIsSettled /\
    ToldIsSuspended /\ ShownIsAcceptable /\ KindsStayApart /\ LostForAReason /\
    ExpandedIsShut /\ OneTaskPerKey /\ ConflictHasReason /\ QuotedWithinPolicy /\
    SearchHasClock /\ InvitedMayTake /\ PhraseIsRemembered /\ GivenIsRecorded /\
    CachedIsAscribed /\ OutcomeIsFirst /\ OverspendNeedsACrowd /\ CountersAgree /\
    RoleIsDecided /\ LeftJobHasReason /\ SideIsTakenLate /\ SharesAddUp /\ AssessmentsAgree
    /\ EligibleIsAdvised /\ EvidenceExplains /\ CancelledOnce /\ CancelledIsUnsent /\
    SentIsAccepted /\ CasesAreWhole /\ ConflictIsReal /\ ConfirmedIsRecorded /\
    RevealedTogether /\ EvidenceIsTrue /\ MutualNeedsARace

\* No step goes where the rules do not let it.
StepsAreAllowed ==
    [][EarnedStep /\ JudgedOnOwnScores /\ UnwantedNeedsARace /\ NothingComesBack /\
    SilentEndIsIgnored /\ RoleMovesNeedARace /\ SuspectHasNoNewWork /\ AcceptedWithinRules
    /\ HeldGetsNoRisk /\ SearchOnlyWidens /\ WorseRaisesScoreRarely /\
    SuspicionNeedsItsOpposite /\ CancelRewindsNothing /\ OfflineInOrder /\ CasesAdvance /\
    RatingsStay]_vars

\* What was begun is ended.
WorkEnds == \A k \in 1..2 : WorkIsBegun(k) ~> WorkIsEnded(k)
===============================================================================
