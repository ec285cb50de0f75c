\* Every part, without fairness.
\* CHECK_DEADLOCK FALSE: the calls, runs and faults of a part are used up.
SPECIFICATION ServicesSpec
CONSTANTS
  Parts = {"updates", "reverts", "approvals", "mcp", "connections", "writes", "files", "diffs", "processes", "terminals", "logins", "reports", "restarts", "agents", "models", "handedits", "hooks",
           "between", "tools", "edits", "withdrawals"}
  SessionWrites = {c1, c2, c3}
  None = None r1 = r1 r2 = r2 v1 = v1 v2 = v2 bad = bad c1 = c1 c2 = c2
  l1 = l1 w1 = w1 w2 = w2 s1 = s1 s2 = s2 s3 = s3 a0 = a0 a1 = a1
  a2 = a2 ed = ed t1 = t1 i1 = i1 m1 = m1 m2 = m2 e1 = e1 e2 = e2
INVARIANTS UpdatesHold DecisionsHold RuntimesHold NotificationsHold WritesHold FilesHold ProcessesHold ReportsHold SettingsHold
PROPERTIES LoginsHold StepsHold
CHECK_DEADLOCK FALSE
