SPECIFICATION Spec
CONSTANTS
  reset1 = reset1  reset2 = reset2  confirm1 = confirm1  confirm2 = confirm2
  upper = upper  lower = lower
  phone1 = phone1  phone2 = phone2
  Registrants = {1, 2}
  Requesters = {reset1, reset2}
  Confirmers = {confirm1, confirm2}
  Emails = {upper, lower}
  Phones = {phone1, phone2}
  Posts <- MCPosts
  Fold <- MCFold
  None = None
INVARIANTS TypeOK AnswersAreTrue LinksAreBound
PROPERTY PasswordsNeedOwnLink
CHECK_DEADLOCK FALSE
