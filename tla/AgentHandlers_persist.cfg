SPECIFICATION Spec
CONSTANTS
  Requests = {q1, q2}
  Methods = {"configure", "tool.register"}
  Tools = {t1}
  NoRun = NoRun
INVARIANT RegistrationsPersist
