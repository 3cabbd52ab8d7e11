SPECIFICATION Spec
CONSTANTS
  web1 = web1
  web2 = web2
  cli1 = cli1
  cli2 = cli2
  server = server
  shell1 = shell1
  shell2 = shell2
  Proc <- MCProc
  ProcOf <- MCProcOf
  Nobody = Nobody
  NoFile = NoFile
  MaxLives = 2
  Session = {web1, web2, cli1, cli2}
INVARIANT OneHolder
